---- MODULE Spec2Model ----
(***************************************************************************)
(* A model of twmb/dash: the Vyukov bounded queue family                   *)
(* (queue/{mpmc,mpsc,spmc,spsc}/*dvq), the block adapter with its spinning *)
(* writer/reader lock (block/block.go), the futex, the turn broker and the *)
(* folly queue built on them (experimental/queue/mpmc/folly), and the      *)
(* primitives Next2 and CompareAndSwapUintptr.                             *)
(*                                                                         *)
(* Every atomic load, store, add and compare-and-swap of the source is one *)
(* step of the calling goroutine; machine words are kept modulo            *)
(* 2^WordBits.                                                             *)
(***************************************************************************)
EXTENDS Integers, Naturals, Sequences, FiniteSets, TLC

(***************************************************************************)
(* Bounds of the model.                                                    *)
(***************************************************************************)
\* width of a machine word (uintptr) in the model
WordBits == 8
\* largest size handed to New
MaxReq == 4
\* number of producer goroutines (single-producer variants use the first)
NumProducers == 2
\* number of consumer goroutines (single-consumer variants use the first)
NumConsumers == 2
\* number of distinct payloads the producers have to enqueue
MaxItems == 3
\* width of a uint32 (lock.write, lock.read) in the model
Word32Bits == 4
\* goroutines that use the block around a failing operation (Prime/Wait)
NumWaiters == 2
\* goroutines that perform the partner operation and call Signal
NumSignallers == 3
\* goroutines that use one block at the same time
MaxGoroutines == 4
\* partner operations performed by each signaller
OpsEach == 1
\* goroutines that use the futexes and the turn broker
NumThreads == 3
\* further goroutines in the crowd of producers on a full folly queue
NumCrowd == 4
\* futexes made by futex.New
NumFutexes == 2
\* buckets the futexes are spread over
NumBuckets == 2
\* stores to Futex.State made by the callers of a bare futex
MaxStores == 1
\* calls made by each caller of a bare futex
MaxCalls == 1
\* turns the goroutines of one broker take
MaxTurns == 10
\* calls of waitFor made by a goroutine that picks its turns itself
MaxWaits == 2
\* goroutines that call Enqueue and Dequeue as they like
NumFree == 2
\* calls of Enqueue and Dequeue made by each of them
MaxCallsEach == 2
\* tickets of each kind handed out by the folly queue
MaxTickets == 3
\* calls each goroutine makes on a folly queue that is used through its Try
\* operations
MaxTryCalls == 2
\* largest word at addr, old and new of a CompareAndSwapUintptr on its own
MaxWord == 3
\* calls made one at a time on the four Vyukov queues side by side
MaxSeqCalls == 7

RECURSIVE Pow2(_)
Pow2(n) == IF n = 0 THEN 1 ELSE 2 * Pow2(n - 1)

WordMod == Pow2(WordBits)

Word32Mod == Pow2(Word32Bits)

\* math.MaxUint32
MaxUint32 == Word32Mod - 1

\* unsigned word arithmetic: the value of an integer expression as a uintptr
Wrap(x) == x % WordMod

\* int(x): the word x read as a signed integer
ToInt(x) == IF x >= WordMod \div 2 THEN x - WordMod ELSE x

RECURSIVE BitOr(_, _)
BitOr(a, b) ==
    IF a = 0 THEN b
    ELSE IF b = 0 THEN a
    ELSE (IF a % 2 = 1 \/ b % 2 = 1 THEN 1 ELSE 0) + 2 * BitOr(a \div 2, b \div 2)

RECURSIVE BitAnd(_, _)
BitAnd(a, b) ==
    IF a = 0 \/ b = 0 THEN 0
    ELSE (IF a % 2 = 1 /\ b % 2 = 1 THEN 1 ELSE 0) + 2 * BitAnd(a \div 2, b \div 2)

\* the loop of Next2: for i := 1; i < UpSz<<3; i <<= 1 { v |= v >> i }
RECURSIVE Next2Loop(_, _)
Next2Loop(v, i) ==
    IF i < WordBits THEN Next2Loop(BitOr(v, v \div Pow2(i)), 2 * i) ELSE v

\* primitive.Next2: v rounded up to the next power of 2
Next2(v) == Wrap(Next2Loop(Wrap(v - 1), 1) + 1)

\* primitive.Null
Null == 0

CompareAndSwapKeepsOld(cur, old, new) ==
    IF cur = old
    THEN [mem |-> new, fresh |-> cur, swapped |-> TRUE]
    ELSE [mem |-> cur, fresh |-> cur, swapped |-> FALSE]
\* primitive.CompareAndSwapUintptr(addr, old, new) on a word holding cur
CompareAndSwapUintptr(cur, old, new) ==
    IF cur = old
    THEN [mem |-> new, fresh |-> new, swapped |-> TRUE]
    ELSE [mem |-> cur, fresh |-> cur, swapped |-> FALSE]

(***************************************************************************)
(* State.                                                                  *)
(***************************************************************************)
VARIABLES
    \* ---- queue ----
    variant,    \* which package the queue comes from
    mask,       \* Queue.mask
    cells,      \* the cells behind Queue.bufPtr / Queue.cells
    enqPos,     \* Queue.enqPos
    deqPos,     \* Queue.deqPos
    qpc,        \* where each goroutine is inside its Try call
    qpos,       \* the local pos of a Try call
    qc,         \* the local c of a Try call (index of the cell)
    qptr,       \* the ptr argument of TryEnqueue / the ptr result of TryDequeue
    qsolo,      \* the call has run with no other call in flight
    nextItem,   \* the next payload not yet handed to a producer
    accepted,   \* payloads whose TryEnqueue returned true, in order of return
    returned,   \* payloads returned by successful TryDequeue, in order of return
    claims,     \* <<position, payload>> of every successful TryDequeue
    eclaims,    \* <<position, payload>> of every TryEnqueue that has claimed
    missed,     \* a TryDequeue, no other TryDequeue in flight, has returned
                \* false while an accepted payload had not been returned
    \* ---- block ----
    waiters,    \* Block.waiters
    counter,    \* Block.counter
    lwrite,     \* Block.lock.write
    lread,      \* Block.lock.read
    notify,     \* the goroutines on Block.cond's notify list
    avail,      \* what the guarded operation can take (it fails at 0)
    ops,        \* partner operations performed so far
    team,       \* the goroutines that use the block in this run
    bpc,        \* where each goroutine is
    bprimer,    \* the caller's primer
    bprimed,    \* the caller's primed
    blast,      \* Prime's argument last
    bread,      \* TryRLock's local read
    net,        \* what each caller has added to waiters and not taken back
    owed,       \* a partner operation succeeded after the caller's second failed try
    debt,       \* 1: a Signal gave up in TryLock and no Signal has incremented
                \* counter since; 2: one has, and has not yet broadcast
    wrote,      \* the value of counter a Signal in progress has written
    sigval,     \* the highest value of counter written by a Signal that returned
    \* ---- futex ----
    futex,      \* the Futex structs: State, origAddr, bucket
    buckets,    \* the synthBucket structs: mtx (its holder), nodes (the list)
    node,       \* the synthNode of each goroutine's Wait call
    fcall,      \* each goroutine's Wait or Wake call: its position and locals
    fghost,     \* per goroutine: calls made, wakeup owed, nodes its Wake signalled
    \* ---- turn broker ----
    tcall,      \* each goroutine's waitFor or completeTurn call: position and locals
    spinCutoff, \* Queue.pushSpinCutoff (1) and Queue.popSpinCutoff (2)
    tdone,      \* per broker: the turns whose completeTurn has swapped
    tghost,     \* per goroutine: calls made, called for a completed turn
    tclaimed,   \* the turns taken by the goroutines that share one broker
    \* ---- folly queue ----
    lgsz,       \* Queue.lgsz
    follyMask,  \* Queue.mask
    pushTicket, \* Queue.pushTicket
    popTicket,  \* Queue.popTicket
    cellPtr,    \* cell.ptr of every cell
    ycall,      \* each goroutine's Enqueue or Dequeue call: position and locals
    yops,       \* per goroutine: calls of Enqueue and Dequeue made
    pushed,     \* <<push ticket, payload>> of every Enqueue called
    popped,     \* <<pop ticket, payload>> of every Dequeue that has returned
    tlog,       \* the Try calls that have returned, in order, with their results
    ysolo,      \* every call so far was a Try call that began with no other
                \* call under way
    \* ---- the primitives on their own ----
    pin,        \* the arguments of the call
    pout,       \* its results, once it has returned
    pmem,       \* the word at addr
    pcas,       \* the position of the caller of CompareAndSwapUintptr
    pquiet,     \* nobody else has stored to addr during the call
    quad        \* four queues, one of each package, given the same calls

qvars == <<variant, mask, cells, enqPos, deqPos, qpc, qpos, qc, qptr, qsolo,
           nextItem, accepted, returned, claims, eclaims, missed>>

bvars == <<waiters, counter, lwrite, lread, notify, avail, ops, team, bpc, bprimer,
           bprimed, blast, bread, net, owed, debt, wrote, sigval>>

fvars == <<futex, buckets, node, fcall, fghost>>

tvars == <<tcall, spinCutoff, tdone, tghost, tclaimed>>

yvars == <<lgsz, follyMask, pushTicket, popTicket, cellPtr, ycall, yops, pushed,
           popped, tlog, ysolo>>

pvars == <<pin, pout, pmem, pcas, pquiet, quad>>

xvars == <<fvars, tvars, yvars, pvars>>

vars == <<qvars, bvars, xvars>>

(***************************************************************************)
(* The emulated futex: Futex, synthBucket, synthNode, Wait and Wake.       *)
(***************************************************************************)
Threads == 1..(NumThreads + NumCrowd)
Futexes == 1..NumFutexes
Buckets == 1..NumBuckets

\* the values uintptr(unsafe.Pointer(&f)) can take in New: the address of
\* New's local f, which two calls of New may share
Addrs == 1..NumFutexes

\* Result
ValueChanged == 0
Awoken == 1
\* no call has returned yet
NoResult == 2

\* a goroutine outside Wait and Wake
IdleCall ==
    [pc |-> "idle", f |-> 0, expectState |-> 0, waitMask |-> 0, count |-> 0,
     numAwoken |-> 0, iter |-> 0, cur |-> 0, result |-> NoResult]

\* a synthNode no Wait call is using
NoNode == [addr |-> 0, waitMask |-> 0, signalled |-> FALSE, mtx |-> 0,
           parked |-> FALSE]

\* futex.New for every futex: f.origAddr = uintptr(unsafe.Pointer(&f)) and
\* f.bucket = buckets[twhash(origAddr) % numBuckets], so the bucket is a
\* function of the address; State starts at 0
FutexNew ==
    {fx \in [Futexes -> [State : {0}, origAddr : Addrs, bucket : Buckets]] :
        /\ fx[1].origAddr = 1 /\ fx[1].bucket = 1
        /\ \A f, g \in Futexes :
              fx[f].origAddr = fx[g].origAddr => fx[f].bucket = fx[g].bucket}

\* init(): every bucket has a free mutex and an empty list
FInit ==
    /\ futex \in FutexNew
    /\ buckets = [b \in Buckets |-> [mtx |-> 0, nodes |-> <<>>]]
    /\ node = [p \in Threads |-> NoNode]
    /\ fcall = [p \in Threads |-> IdleCall]
    /\ fghost = [p \in Threads |-> [calls |-> 0, owed |-> FALSE, hit |-> {}]]

\* the bucket of the futex a call is on
BucketOf(p) == futex[fcall[p].f].bucket

\* the futex's callers touch neither the Vyukov queues nor the block
FutexFrame == UNCHANGED <<qvars, bvars, tvars, yvars, pvars>>

\* the list without its i-th node
Unlink(lst, i) == SubSeq(lst, 1, i - 1) \o SubSeq(lst, i + 1, Len(lst))

\* ---- Futex.Wait ----

\* Wait(expectState, waitMask) is called: the node is built
WaitCall(p, f, expectState, waitMask) ==
    /\ fcall' = [fcall EXCEPT ![p] = [IdleCall EXCEPT !.pc = "wait_lock",
                     !.f = f, !.expectState = expectState,
                     !.waitMask = waitMask]]
    /\ node' = [node EXCEPT ![p] = [NoNode EXCEPT !.addr = futex[f].origAddr,
                                                  !.waitMask = waitMask]]

\* f.bucket.mtx.Lock()
FutexWaitLock(p) ==
    /\ fcall[p].pc = "wait_lock"
    /\ buckets[BucketOf(p)].mtx = 0
    /\ buckets' = [buckets EXCEPT ![BucketOf(p)].mtx = p]
    /\ fcall' = [fcall EXCEPT ![p].pc = "wait_load"]
    /\ UNCHANGED <<futex, node, fghost>>
    /\ FutexFrame

\* a Wait that links its node whatever State holds
FutexWaitLoadLinks(p) ==
    /\ fcall[p].pc = "wait_load"
    /\ fcall' = [fcall EXCEPT ![p].pc = "wait_link"]
    /\ UNCHANGED <<futex, buckets, node, fghost>>
    /\ FutexFrame

\* if atomic.LoadUintptr(&f.State) != expectState { unlock; return ValueChanged }
FutexWaitLoad(p) ==
    /\ fcall[p].pc = "wait_load"
    /\ IF futex[fcall[p].f].State # fcall[p].expectState
       THEN /\ buckets' = [buckets EXCEPT ![BucketOf(p)].mtx = 0]
            /\ fcall' = [fcall EXCEPT ![p] =
                            [IdleCall EXCEPT !.result = ValueChanged]]
            /\ node' = [node EXCEPT ![p] = NoNode]
            /\ fghost' = [fghost EXCEPT ![p].owed = FALSE]
       ELSE /\ fcall' = [fcall EXCEPT ![p].pc = "wait_link"]
            /\ UNCHANGED <<buckets, node, fghost>>
    /\ UNCHANGED futex
    /\ FutexFrame

\* the node is linked in at the tail of the list; f.bucket.mtx.Unlock()
FutexWaitLink(p) ==
    /\ fcall[p].pc = "wait_link"
    /\ buckets' = [buckets EXCEPT ![BucketOf(p)] =
                      [mtx |-> 0, nodes |-> Append(@.nodes, p)]]
    /\ fcall' = [fcall EXCEPT ![p].pc = "wait_nlock"]
    /\ UNCHANGED <<futex, node, fghost>>
    /\ FutexFrame

\* node.mtx.Lock(), on entry and when cond.Wait wakes up
FutexWaitNodeLock(p) ==
    /\ fcall[p].pc = "wait_nlock"
    /\ node[p].mtx = 0
    /\ node' = [node EXCEPT ![p].mtx = p]
    /\ fcall' = [fcall EXCEPT ![p].pc = "wait_test"]
    /\ UNCHANGED <<futex, buckets, fghost>>
    /\ FutexFrame

\* a Wait that returns Awoken without looking at signalled
FutexWaitTestTrusts(p) ==
    /\ fcall[p].pc = "wait_test"
    /\ fcall' = [fcall EXCEPT ![p] = [IdleCall EXCEPT !.result = Awoken]]
    /\ node' = [node EXCEPT ![p] = NoNode]
    /\ fghost' = [fghost EXCEPT ![p].owed = FALSE]
    /\ UNCHANGED <<futex, buckets>>
    /\ FutexFrame

\* for !node.signalled { node.cond.Wait() }; node.mtx.Unlock(); return Awoken
FutexWaitTest(p) ==
    /\ fcall[p].pc = "wait_test"
    /\ IF node[p].signalled
       THEN /\ fcall' = [fcall EXCEPT ![p] = [IdleCall EXCEPT !.result = Awoken]]
            /\ node' = [node EXCEPT ![p] = NoNode]
            /\ fghost' = [fghost EXCEPT ![p].owed = FALSE]
       ELSE /\ fcall' = [fcall EXCEPT ![p].pc = "wait_park"]
            /\ node' = [node EXCEPT ![p].mtx = 0, ![p].parked = TRUE]
            /\ UNCHANGED fghost
    /\ UNCHANGED <<futex, buckets>>
    /\ FutexFrame

\* cond.Wait returns once cond.Signal has taken the goroutine off the list
FutexWaitWoken(p) ==
    /\ fcall[p].pc = "wait_park"
    /\ ~node[p].parked
    /\ fcall' = [fcall EXCEPT ![p].pc = "wait_nlock"]
    /\ UNCHANGED <<futex, buckets, node, fghost>>
    /\ FutexFrame

\* ---- Futex.Wake ----

\* Wake(count, waitMask) is called
WakeCall(p, f, count, waitMask) ==
    fcall' = [fcall EXCEPT ![p] = [IdleCall EXCEPT !.pc = "wake_lock", !.f = f,
                 !.count = count, !.waitMask = waitMask]]

\* f.bucket.mtx.Lock(); numAwoken := 0; iter := sentinel.next
FutexWakeLock(p) ==
    /\ fcall[p].pc = "wake_lock"
    /\ buckets[BucketOf(p)].mtx = 0
    /\ buckets' = [buckets EXCEPT ![BucketOf(p)].mtx = p]
    /\ fcall' = [fcall EXCEPT ![p].pc = "wake_scan", ![p].iter = 1]
    /\ UNCHANGED <<futex, node, fghost>>
    /\ FutexFrame

\* a match that leaves the masks out
MatchesAnyMask(n, f, waitMask) == node[n].addr = futex[f].origAddr

\* iter.addr == f.origAddr && iter.waitMask&waitMask != 0
Matches(n, f, waitMask) ==
    node[n].addr = futex[f].origAddr /\ BitAnd(node[n].waitMask, waitMask) # 0

\* one turn of the loop: a matching node is counted and unlinked; at the end
\* of the loop f.bucket.mtx.Unlock() and return numAwoken
FutexWakeScan(p) ==
    /\ fcall[p].pc = "wake_scan"
    /\ LET b == BucketOf(p)
           lst == buckets[b].nodes
           i == fcall[p].iter
       IN  IF fcall[p].numAwoken < fcall[p].count /\ i <= Len(lst)
           THEN IF Matches(lst[i], fcall[p].f, fcall[p].waitMask)
                THEN /\ buckets' = [buckets EXCEPT ![b].nodes = Unlink(lst, i)]
                     /\ fcall' = [fcall EXCEPT ![p].pc = "wake_nlock",
                                     ![p].numAwoken = @ + 1, ![p].cur = lst[i]]
                ELSE /\ fcall' = [fcall EXCEPT ![p].iter = i + 1]
                     /\ UNCHANGED buckets
           ELSE /\ buckets' = [buckets EXCEPT ![b].mtx = 0]
                /\ fcall' = [fcall EXCEPT ![p] =
                                [IdleCall EXCEPT !.result = fcall[p].numAwoken]]
    /\ UNCHANGED <<futex, node, fghost>>
    /\ FutexFrame

\* iter.mtx.Lock()
FutexWakeNodeLock(p) ==
    /\ fcall[p].pc = "wake_nlock"
    /\ node[fcall[p].cur].mtx = 0
    /\ node' = [node EXCEPT ![fcall[p].cur].mtx = p]
    /\ fcall' = [fcall EXCEPT ![p].pc = "wake_signal"]
    /\ UNCHANGED <<futex, buckets, fghost>>
    /\ FutexFrame

\* a Wake that sets signalled without cond.Signal
FutexWakeSignalSilent(p) ==
    /\ fcall[p].pc = "wake_signal"
    /\ node' = [node EXCEPT ![fcall[p].cur] =
                   [@ EXCEPT !.signalled = TRUE, !.mtx = 0]]
    /\ fghost' = [fghost EXCEPT ![p].hit = @ \cup {fcall[p].cur}]
    /\ fcall' = [fcall EXCEPT ![p].pc = "wake_scan", ![p].cur = 0]
    /\ UNCHANGED <<futex, buckets>>
    /\ FutexFrame

\* iter.signalled = true; iter.cond.Signal(); iter.mtx.Unlock(); the loop
\* goes on with iter.next, which has moved up to iter's place
FutexWakeSignal(p) ==
    /\ fcall[p].pc = "wake_signal"
    /\ node' = [node EXCEPT ![fcall[p].cur] =
                   [@ EXCEPT !.signalled = TRUE, !.parked = FALSE, !.mtx = 0]]
    /\ fghost' = [fghost EXCEPT ![p].hit = @ \cup {fcall[p].cur}]
    /\ fcall' = [fcall EXCEPT ![p].pc = "wake_scan", ![p].cur = 0]
    /\ UNCHANGED <<futex, buckets>>
    /\ FutexFrame

\* every step inside Wait or Wake
FutexRun(p) ==
    \/ FutexWaitLock(p)
    \/ FutexWaitLoad(p)
    \/ FutexWaitLink(p)
    \/ FutexWaitNodeLock(p)
    \/ FutexWaitTest(p)
    \/ FutexWaitWoken(p)
    \/ FutexWakeLock(p)
    \/ FutexWakeScan(p)
    \/ FutexWakeNodeLock(p)
    \/ FutexWakeSignal(p)

\* ---- the callers of a bare futex ----

\* the last goroutine stores and wakes, the others wait
Wakers == {NumThreads}
Sleepers == (1..NumThreads) \ Wakers

\* the futex the waker stores to and wakes; the others share its bucket, its
\* address, or neither
Woken == {1}

\* the wait masks and the counts the callers use
WaitMasks == {1, 2}
WakeMasks == {1, 3}
Counts == {1, MaxUint32}

\* a goroutine inside Wait
InWait(p) == fcall[p].pc \in {"wait_lock", "wait_load", "wait_link",
                              "wait_nlock", "wait_test", "wait_park"}

\* a caller publishes a new value of State
BareStore(p) ==
    \E f \in Woken :
        /\ p \in Wakers
        /\ fcall[p].pc = "idle"
        /\ futex[f].State < MaxStores
        /\ futex' = [futex EXCEPT ![f].State = Wrap(@ + 1)]
        /\ UNCHANGED <<buckets, node, fcall, fghost>>
        /\ FutexFrame

BareWait(p) ==
    \E f \in Futexes, e \in 0..MaxStores, m \in WaitMasks :
        /\ p \in Sleepers
        /\ fcall[p].pc = "idle"
        /\ fghost[p].calls < MaxCalls
        /\ WaitCall(p, f, e, m)
        /\ fghost' = [fghost EXCEPT ![p].calls = @ + 1, ![p].hit = {}]
        /\ UNCHANGED <<futex, buckets>>
        /\ FutexFrame

\* Wake is called; with count = MaxUint32 it owes a wakeup to every Wait in
\* progress on the futex with an overlapping mask that expects a value State
\* held before the store (the values stored go up)
BareWake(p) ==
    \E f \in Woken, c \in Counts, m \in WakeMasks :
        /\ p \in Wakers
        /\ fcall[p].pc = "idle"
        /\ fghost[p].calls < MaxCalls
        /\ WakeCall(p, f, c, m)
        /\ fghost' = [q \in Threads |->
              IF q = p THEN [fghost[p] EXCEPT !.calls = @ + 1, !.hit = {}]
              ELSE [fghost[q] EXCEPT !.owed =
                      @ \/ (/\ c = MaxUint32
                            /\ InWait(q) /\ fcall[q].f = f
                            /\ fcall[q].expectState < futex[f].State
                            /\ BitAnd(fcall[q].waitMask, m) # 0)]]
        /\ UNCHANGED <<futex, buckets, node>>
        /\ FutexFrame

FutexNext == \E p \in Threads : BareStore(p) \/ BareWait(p) \/ BareWake(p) \/ FutexRun(p)

\* every goroutine inside Wait or Wake keeps running; the callers of the
\* bare futex are the sleepers and the waker
FutexFair == \A p \in Sleepers \cup Wakers : WF_vars(FutexRun(p))
(***************************************************************************)
(* The turn broker: waitFor and completeTurn over one futex word.          *)
(***************************************************************************)
RECURSIVE Log2(_)
Log2(n) == IF n <= 1 THEN 0 ELSE 1 + Log2(n \div 2)

\* turnShift: 6 for the 64-bit words of the source, where 1<<turnShift is
\* the width of a word
turnShift == Log2(WordBits)
turnWaitMask == Pow2(turnShift) - 1

\* updateSpinFreqShift, scaled down with the runs
updateSpinFreqShift == 1

\* maybeUpdateSpin := ticket>>updateSpinFreqShift == 0
MaybeUpdateSpin(ticket) == ticket \div Pow2(updateSpinFreqShift) = 0

\* minSpins and maxSpins, scaled down with the runs
minSpins == 1
maxSpins == 2

\* math.MaxUint32>>(turnShift+1), with the all-ones of the model's word
pastCutoff == (WordMod - 1) \div Pow2(turnShift + 1)

\* (turn &^ turnWaitMask) >> turnShift
getTurnNumber(turn) == turn \div Pow2(turnShift)

\* turn & turnWaitMask
getTurnWait(turn) == BitAnd(turn, turnWaitMask)

\* turnNumber<<turnShift | turnWait, turnWait cut to turnWaitMask
encodeTurn(turnNumber, turnWait) ==
    BitOr(Wrap(turnNumber * Pow2(turnShift)),
          IF turnWait > turnWaitMask THEN turnWaitMask ELSE turnWait)

\* 1 << (turn & ((upSz << 3) - 1))
futexChannel(turn) == Pow2(BitAnd(turn, WordBits - 1))

\* a goroutine outside waitFor and completeTurn
IdleTurn ==
    [pc |-> "idle", f |-> 0, cut |-> 0, turn |-> 0, state |-> 0, newState |-> 0,
     tries |-> 0, givenSpinCount |-> 0, spinCount |-> 0,
     updateSpinCutoff |-> FALSE]

\* the brokers start at turn 0 with no waiter (State = 0); the spin cutoffs
\* start at 0
TInit ==
    /\ tcall = [p \in Threads |-> IdleTurn]
    /\ spinCutoff = [c \in 1..2 |-> 0]
    /\ tdone = [f \in Futexes |-> {}]
    /\ tghost = [p \in Threads |-> [calls |-> 0, past |-> FALSE]]
    /\ tclaimed = {}

\* tries++, which matters only up to maxSpins
NextTry(tries) == IF tries < maxSpins THEN tries + 1 ELSE tries

PastNever(waitingFor) == FALSE
\* if waitingFor >= math.MaxUint32>>(turnShift+1) { panic("turn is in the past") }
Past(waitingFor) == waitingFor >= pastCutoff

\* the body of waitFor's loop up to its next access to shared memory, for
\* the state just read: where the call goes and the newState it computes
Decide(c, state, tries) ==
    LET curTurn == getTurnNumber(state)
        waitingFor == Wrap(c.turn - curTurn)
        curWaitingFor == getTurnWait(state)
        newState == encodeTurn(curTurn, waitingFor)
    IN  IF curTurn = c.turn
        THEN [c EXCEPT !.pc = "wf_exit", !.state = 0, !.newState = 0, !.tries = tries]
        ELSE IF Past(waitingFor)
        THEN [IdleTurn EXCEPT !.pc = "panicked"]
        ELSE IF tries < c.spinCount
        THEN [c EXCEPT !.pc = "wf_spin", !.state = 0, !.tries = tries]
        ELSE IF waitingFor <= curWaitingFor
        THEN [c EXCEPT !.pc = "wf_wait", !.state = 0, !.newState = state,
                       !.tries = tries]
        ELSE IF state # newState
        THEN [c EXCEPT !.pc = "wf_cas", !.state = state, !.newState = newState,
                       !.tries = tries]
        ELSE [c EXCEPT !.pc = "wf_wait", !.state = 0, !.newState = newState,
                       !.tries = tries]

\* the turn broker's callers touch neither the Vyukov queues nor the block
TurnFrame == UNCHANGED <<qvars, bvars, yvars, pvars>>

\* ---- turnBroker.waitFor ----

\* waitFor(turn, spinCutoff, updateSpinCutoff) is called on the broker of
\* futex f, with the cutoff numbered cut
WaitForCall(p, f, cut, turn, updateSpinCutoff) ==
    tcall' = [tcall EXCEPT ![p] = [IdleTurn EXCEPT !.pc = "wf_begin", !.f = f,
                 !.cut = cut, !.turn = turn,
                 !.updateSpinCutoff = updateSpinCutoff]]

\* givenSpinCount := atomic.LoadUint32(spinCutoff); spinCount is maxSpins if
\* updateSpinCutoff || givenSpinCount == 0
WaitForBegin(p) ==
    /\ tcall[p].pc = "wf_begin"
    /\ LET given == spinCutoff[tcall[p].cut]
       IN  tcall' = [tcall EXCEPT ![p].pc = "wf_load",
                ![p].givenSpinCount = given,
                ![p].spinCount = IF tcall[p].updateSpinCutoff \/ given = 0
                                 THEN maxSpins ELSE given]
    /\ UNCHANGED <<fvars, spinCutoff, tdone, tghost, tclaimed>>
    /\ TurnFrame

\* state := atomic.LoadUintptr(&t.f.State), before the loop; and
\* primitive.Pause(); state = atomic.LoadUintptr(&t.f.State); continue
WaitForLoad(p) ==
    /\ tcall[p].pc \in {"wf_load", "wf_spin"}
    /\ tcall' = [tcall EXCEPT ![p] =
          Decide(@, futex[@.f].State,
                 IF @.pc = "wf_spin" THEN NextTry(@.tries) ELSE @.tries)]
    /\ UNCHANGED <<fvars, spinCutoff, tdone, tghost, tclaimed>>
    /\ TurnFrame

\* state, swapped = CompareAndSwapUintptr(&t.f.State, state, newState);
\* if !swapped { continue }
WaitForCAS(p) ==
    /\ tcall[p].pc = "wf_cas"
    /\ LET c == tcall[p]
           r == CompareAndSwapUintptr(futex[c.f].State, c.state, c.newState)
       IN  /\ futex' = [futex EXCEPT ![c.f].State = r.mem]
           /\ tcall' = [tcall EXCEPT ![p] =
                 IF r.swapped THEN [c EXCEPT !.pc = "wf_wait", !.state = 0]
                 ELSE Decide(c, r.fresh, NextTry(c.tries))]
    /\ UNCHANGED <<buckets, node, fcall, fghost, spinCutoff, tdone, tghost, tclaimed>>
    /\ TurnFrame

\* t.f.Wait(newState, futexChannel(turn)) is called
WaitForWait(p) ==
    /\ tcall[p].pc = "wf_wait"
    /\ WaitCall(p, tcall[p].f, tcall[p].newState, futexChannel(tcall[p].turn))
    /\ tcall' = [tcall EXCEPT ![p].pc = "wf_inwait", ![p].newState = 0]
    /\ UNCHANGED <<futex, buckets, fghost, spinCutoff, tdone, tghost, tclaimed>>
    /\ TurnFrame

WaitForReloadTrusts(p) ==
    /\ tcall[p].pc = "wf_inwait"
    /\ fcall[p].pc = "idle"
    /\ tcall' = [tcall EXCEPT ![p].pc = "wf_exit", ![p].tries = NextTry(@)]
    /\ UNCHANGED <<fvars, spinCutoff, tdone, tghost, tclaimed>>
    /\ TurnFrame
\* Wait has returned: state = atomic.LoadUintptr(&t.f.State), and tries++
WaitForReload(p) ==
    /\ tcall[p].pc = "wf_inwait"
    /\ fcall[p].pc = "idle"
    /\ tcall' = [tcall EXCEPT ![p] = Decide(@, futex[@.f].State, NextTry(@.tries))]
    /\ UNCHANGED <<fvars, spinCutoff, tdone, tghost, tclaimed>>
    /\ TurnFrame

\* the spinUpdate waitFor computes from tries
SpinUpdate(tries) ==
    IF tries >= maxSpins THEN minSpins
    ELSE LET dubTries == 2 * tries
             s == IF dubTries > minSpins THEN dubTries ELSE minSpins
         IN  IF maxSpins < s THEN maxSpins ELSE s

\* uint32(int(givenSpinCount) + (int(spinUpdate)-int(givenSpinCount))>>3)
MovingAverage(givenSpinCount, spinUpdate) ==
    (givenSpinCount + ((spinUpdate - givenSpinCount) \div 8)) % Word32Mod

\* the loop has left with break: the spin cutoff is stored or swapped in if
\* updateSpinCutoff || givenSpinCount == 0, and waitFor returns
WaitForExit(p) ==
    /\ tcall[p].pc = "wf_exit"
    /\ LET c == tcall[p]
           spinUpdate == SpinUpdate(c.tries)
       IN  spinCutoff' =
             IF ~(c.updateSpinCutoff \/ c.givenSpinCount = 0) THEN spinCutoff
             ELSE IF c.givenSpinCount = 0
             THEN [spinCutoff EXCEPT ![c.cut] = spinUpdate]
             ELSE IF spinCutoff[c.cut] = c.givenSpinCount
             THEN [spinCutoff EXCEPT ![c.cut] =
                      MovingAverage(c.givenSpinCount, spinUpdate)]
             ELSE spinCutoff
    /\ tcall' = [tcall EXCEPT ![p] =
          [IdleTurn EXCEPT !.pc = "wf_ret", !.f = tcall[p].f, !.turn = tcall[p].turn]]
    /\ UNCHANGED <<fvars, tdone, tghost, tclaimed>>
    /\ TurnFrame

\* ---- turnBroker.completeTurn ----

\* completeTurn(turn) is called on the broker of futex f
CompleteTurnCall(p, f, turn) ==
    tcall' = [tcall EXCEPT ![p] = [IdleTurn EXCEPT !.pc = "ct_load", !.f = f,
                                                   !.turn = turn]]

\* state := atomic.LoadUintptr(&t.f.State)
CompleteTurnLoad(p) ==
    /\ tcall[p].pc = "ct_load"
    /\ tcall' = [tcall EXCEPT ![p].pc = "ct_cas", ![p].state = futex[tcall[p].f].State]
    /\ UNCHANGED <<fvars, spinCutoff, tdone, tghost, tclaimed>>
    /\ TurnFrame

\* a completeTurn that leaves the count of waiters as it found it
CompleteTurnCASKeepsCount(p) ==
    /\ tcall[p].pc = "ct_cas"
    /\ LET c == tcall[p]
           curWaitingFor == getTurnWait(c.state)
           oneLess == curWaitingFor
           newState == encodeTurn(Wrap(c.turn + 1), oneLess)
           r == CompareAndSwapUintptr(futex[c.f].State, c.state, newState)
       IN  /\ futex' = [futex EXCEPT ![c.f].State = r.mem]
           /\ IF r.swapped
              THEN /\ tdone' = [tdone EXCEPT ![c.f] = @ \cup {c.turn}]
                   /\ IF curWaitingFor # 0
                      THEN /\ WakeCall(p, c.f, MaxUint32,
                                       futexChannel(Wrap(c.turn + 1)))
                           /\ tcall' = [tcall EXCEPT ![p].pc = "ct_inwake",
                                                     ![p].state = 0]
                      ELSE /\ tcall' = [tcall EXCEPT ![p] =
                                 [IdleTurn EXCEPT !.pc = "ct_ret", !.f = c.f,
                                                  !.turn = c.turn]]
                           /\ UNCHANGED fcall
              ELSE /\ tcall' = [tcall EXCEPT ![p].state = r.fresh]
                   /\ UNCHANGED <<tdone, fcall>>
    /\ UNCHANGED <<buckets, node, fghost, spinCutoff, tghost, tclaimed>>
    /\ TurnFrame

\* the loop of completeTurn: newState := encodeTurn(turn+1, oneLess); the
\* compare-and-swap; on success t.f.Wake(math.MaxUint32, futexChannel(turn+1))
\* if curWaitingFor != 0, and break
CompleteTurnCAS(p) ==
    /\ tcall[p].pc = "ct_cas"
    /\ LET c == tcall[p]
           curWaitingFor == getTurnWait(c.state)
           oneLess == IF curWaitingFor > 0 THEN curWaitingFor - 1 ELSE 0
           newState == encodeTurn(Wrap(c.turn + 1), oneLess)
           r == CompareAndSwapUintptr(futex[c.f].State, c.state, newState)
       IN  /\ futex' = [futex EXCEPT ![c.f].State = r.mem]
           /\ IF r.swapped
              THEN /\ tdone' = [tdone EXCEPT ![c.f] = @ \cup {c.turn}]
                   /\ IF curWaitingFor # 0
                      THEN /\ WakeCall(p, c.f, MaxUint32,
                                       futexChannel(Wrap(c.turn + 1)))
                           /\ tcall' = [tcall EXCEPT ![p].pc = "ct_inwake",
                                                     ![p].state = 0]
                      ELSE /\ tcall' = [tcall EXCEPT ![p] =
                                 [IdleTurn EXCEPT !.pc = "ct_ret", !.f = c.f,
                                                  !.turn = c.turn]]
                           /\ UNCHANGED fcall
              ELSE /\ tcall' = [tcall EXCEPT ![p].state = r.fresh]
                   /\ UNCHANGED <<tdone, fcall>>
    /\ UNCHANGED <<buckets, node, fghost, spinCutoff, tghost, tclaimed>>
    /\ TurnFrame

\* Wake has returned, and so does completeTurn
CompleteTurnWoken(p) ==
    /\ tcall[p].pc = "ct_inwake"
    /\ fcall[p].pc = "idle"
    /\ tcall' = [tcall EXCEPT ![p] =
          [IdleTurn EXCEPT !.pc = "ct_ret", !.f = tcall[p].f, !.turn = tcall[p].turn]]
    /\ UNCHANGED <<fvars, spinCutoff, tdone, tghost, tclaimed>>
    /\ TurnFrame

\* a step inside waitFor or completeTurn
TurnRun(p) ==
    \/ WaitForBegin(p)
    \/ WaitForLoad(p)
    \/ WaitForCAS(p)
    \/ WaitForWait(p)
    \/ WaitForReload(p)
    \/ WaitForExit(p)
    \/ CompleteTurnLoad(p)
    \/ CompleteTurnCAS(p)
    \/ CompleteTurnWoken(p)

\* ---- goroutines that take turns on one broker ----

\* the broker the goroutines share, and the cutoff they hand to waitFor
SharedBroker == 1
SharedCutoff == 1

\* the goroutine that takes every turn nobody else has taken
Completers == {NumThreads}

\* the goroutine that picks its turns itself
Pickers == {1}

Turns == 0..(MaxTurns - 1)

\* the turns the picker asks for: the next ones, and the last one, which is
\* more than turnWaitMask turns ahead
SleeperTurns == {1, 2, MaxTurns - 1}

\* a goroutine takes a turn nobody has taken and calls waitFor for it as
\* Queue.enqueue and Queue.dequeue do: the completer the lowest one, the
\* others one of theirs
TurnCall(p) ==
    /\ tcall[p].pc = "idle"
    /\ p \in Pickers \cup Completers
    /\ p \in Pickers => tghost[p].calls < MaxWaits
    /\ \E turn \in Turns \ tclaimed :
          /\ p \in Completers => \A t \in Turns \ tclaimed : turn <= t
          /\ p \in Pickers => turn \in SleeperTurns
          /\ tclaimed' = tclaimed \cup {turn}
          /\ WaitForCall(p, SharedBroker, SharedCutoff, turn, MaybeUpdateSpin(turn))
    /\ tghost' = [tghost EXCEPT ![p].calls = @ + 1]
    /\ UNCHANGED <<fvars, spinCutoff, tdone>>
    /\ TurnFrame

\* the turns a goroutine asks for again after they have been completed
PastTurns == {0}

\* a goroutine calls waitFor for a turn that has been completed
TurnPastCall(p) ==
    /\ tcall[p].pc = "idle"
    /\ p \in Pickers
    /\ tghost[p].calls < MaxWaits
    /\ \E turn \in tdone[SharedBroker] \cap PastTurns :
          WaitForCall(p, SharedBroker, SharedCutoff, turn, MaybeUpdateSpin(turn))
    /\ tghost' = [tghost EXCEPT ![p].calls = @ + 1, ![p].past = TRUE]
    /\ UNCHANGED <<fvars, spinCutoff, tdone, tclaimed>>
    /\ TurnFrame

\* waitFor(turn) has returned: the goroutine calls completeTurn(turn)
TurnComplete(p) ==
    /\ tcall[p].pc = "wf_ret"
    /\ CompleteTurnCall(p, tcall[p].f, tcall[p].turn)
    /\ UNCHANGED <<fvars, spinCutoff, tdone, tghost, tclaimed>>
    /\ TurnFrame

\* completeTurn has returned
TurnDone(p) ==
    /\ tcall[p].pc = "ct_ret"
    /\ tcall' = [tcall EXCEPT ![p] = IdleTurn]
    /\ UNCHANGED <<fvars, spinCutoff, tdone, tghost, tclaimed>>
    /\ TurnFrame

TurnNext ==
    \E p \in Threads :
        \/ TurnCall(p)
        \/ TurnPastCall(p)
        \/ TurnComplete(p)
        \/ TurnDone(p)
        \/ TurnRun(p)
        \/ FutexRun(p)

\* the Go scheduler runs every goroutine that can run, and the completer
\* goes on taking turns while there are turns left; the other goroutines
\* take no part in these runs, and a goroutine is at one place at a time,
\* so one condition for each stands for one for each kind of step
TurnFair ==
    /\ \A p \in Pickers \cup Completers :
          WF_vars(TurnRun(p) \/ FutexRun(p) \/ TurnComplete(p) \/ TurnDone(p))
    /\ \A p \in Completers : WF_vars(TurnCall(p))

(***************************************************************************)
(* The folly queue (experimental/queue/mpmc/folly): blocking Enqueue and   *)
(* Dequeue over one turn broker per cell.                                  *)
(***************************************************************************)
\* next2: v--; v |= v >> i for i = 1, 2, 4, ... below the word width; v + 1
next2(v) == Wrap(Next2Loop(Wrap(v - 1), 1) + 1)

\* New's loop: for i := uintptr(1); i < size2; i <<= 1 { lgsz++ }
RECURSIVE LgszLoop(_, _)
LgszLoop(i, size2) == IF i < size2 THEN 1 + LgszLoop(Wrap(2 * i), size2) ELSE 0

\* the sizes handed to New: those whose cells the futexes suffice for
FollySizes == {size \in 1..NumFutexes : next2(size) <= NumFutexes}

\* a goroutine outside Enqueue and Dequeue
IdleOp ==
    [pc |-> "idle", ticket |-> 0, ptr |-> Null, cur |-> 0, try |-> FALSE,
     claimed |-> 0]

\* New(size): lgsz, mask, a cell with a new futex and a nil ptr for each of
\* the size2 slots, both tickets and both spin cutoffs zero
YInit ==
    /\ \E size \in FollySizes :
          /\ lgsz = LgszLoop(1, next2(size))
          /\ follyMask = Wrap(next2(size) - 1)
          /\ cellPtr = [c \in 0..(next2(size) - 1) |-> Null]
    /\ pushTicket = 0
    /\ popTicket = 0
    /\ ycall = [p \in Threads |-> IdleOp]
    /\ yops = [p \in Threads |-> 0]
    /\ pushed = {}
    /\ popped = {}
    /\ tlog = <<>>
    /\ ysolo = TRUE

\* the futex of the broker of cell c
BrokerOf(c) == c + 1

\* c := cellsPtr + cellSz * (ticket & q.mask)
CellOf(ticket) == BitAnd(ticket, follyMask)

\* turn := ticket >> q.lgsz
TurnOf(ticket) == ticket \div Pow2(lgsz)

\* the cutoffs handed to waitFor: &q.pushSpinCutoff and &q.popSpinCutoff
PushCutoff == 1
PopCutoff == 2

\* the payload of the next Enqueue: one no Enqueue has had
NextPayload == Cardinality(pushed) + 1

\* turnBroker, futex and queue steps leave the Vyukov queues and the block
FollyFrame == UNCHANGED <<qvars, bvars, tclaimed, pvars>>

\* Enqueue(ptr): nextTicket := atomic.AddUintptr(&q.pushTicket, 1), then
\* q.enqueue(nextTicket-1, ptr) and cell.enqueue up to the call of
\* c.tb.waitFor(turn*2, &q.pushSpinCutoff, maybeUpdateSpin)
EnqueueCall(p) ==
    /\ ycall[p].pc = "idle"
    /\ tcall[p].pc = "idle"
    /\ LET nextTicket == Wrap(pushTicket + 1)
           ticket == Wrap(nextTicket - 1)
       IN  /\ pushTicket' = nextTicket
           /\ ycall' = [ycall EXCEPT ![p] =
                 [IdleOp EXCEPT !.pc = "enq_wait", !.ticket = ticket, !.ptr = NextPayload]]
           /\ pushed' = pushed \cup {<<ticket, NextPayload>>}
           /\ WaitForCall(p, BrokerOf(CellOf(ticket)), PushCutoff,
                          Wrap(TurnOf(ticket) * 2), MaybeUpdateSpin(ticket))
    /\ yops' = [yops EXCEPT ![p] = @ + 1]
    /\ ysolo' = FALSE
    /\ UNCHANGED <<lgsz, follyMask, popTicket, cellPtr, popped, tlog>>
    /\ UNCHANGED <<fvars, spinCutoff, tdone, tghost>>
    /\ FollyFrame

CellEnqueueKeeps(p) ==
    /\ ycall[p].pc = "enq_wait"
    /\ tcall[p].pc = "wf_ret"
    /\ ycall' = [ycall EXCEPT ![p].pc = "enq_complete"]
    /\ CompleteTurnCall(p, tcall[p].f, tcall[p].turn)
    /\ UNCHANGED <<lgsz, follyMask, pushTicket, popTicket, cellPtr, yops, pushed, popped>>
    /\ UNCHANGED <<fvars, spinCutoff, tdone, tghost, tlog, ysolo>>
    /\ FollyFrame
\* cell.enqueue after waitFor has returned: c.ptr = ptr, and
\* c.tb.completeTurn(turn * 2) is called
CellEnqueue(p) ==
    /\ ycall[p].pc = "enq_wait"
    /\ tcall[p].pc = "wf_ret"
    /\ cellPtr' = [cellPtr EXCEPT ![CellOf(ycall[p].ticket)] = ycall[p].ptr]
    /\ ycall' = [ycall EXCEPT ![p].pc = "enq_complete"]
    /\ CompleteTurnCall(p, tcall[p].f, tcall[p].turn)
    /\ UNCHANGED <<lgsz, follyMask, pushTicket, popTicket, yops, pushed, popped>>
    /\ UNCHANGED <<fvars, spinCutoff, tdone, tghost, tlog, ysolo>>
    /\ FollyFrame

\* completeTurn has returned, and so do cell.enqueue, q.enqueue and Enqueue
EnqueueReturn(p) ==
    /\ ycall[p].pc = "enq_complete"
    /\ tcall[p].pc = "ct_ret"
    /\ ycall' = [ycall EXCEPT ![p] = IdleOp]
    /\ tcall' = [tcall EXCEPT ![p] = IdleTurn]
    /\ tlog' = IF ycall[p].try
               THEN Append(tlog, [kind |-> "TryEnqueue", ok |-> TRUE,
                                  ptr |-> ycall[p].ptr])
               ELSE tlog
    /\ UNCHANGED <<lgsz, follyMask, pushTicket, popTicket, cellPtr, yops, pushed, popped>>
    /\ UNCHANGED <<fvars, spinCutoff, tdone, tghost, ysolo>>
    /\ FollyFrame

\* Dequeue(): nextTicket := atomic.AddUintptr(&q.popTicket, 1), then
\* q.dequeue(nextTicket-1) and cell.dequeue up to the call of
\* c.tb.waitFor(turn*2+1, &q.popSpinCutoff, maybeUpdateSpin)
DequeueCall(p) ==
    /\ ycall[p].pc = "idle"
    /\ tcall[p].pc = "idle"
    /\ LET nextTicket == Wrap(popTicket + 1)
           ticket == Wrap(nextTicket - 1)
       IN  /\ popTicket' = nextTicket
           /\ ycall' = [ycall EXCEPT ![p] =
                 [IdleOp EXCEPT !.pc = "deq_wait", !.ticket = ticket]]
           /\ WaitForCall(p, BrokerOf(CellOf(ticket)), PopCutoff,
                          Wrap(TurnOf(ticket) * 2 + 1), MaybeUpdateSpin(ticket))
    /\ yops' = [yops EXCEPT ![p] = @ + 1]
    /\ ysolo' = FALSE
    /\ UNCHANGED <<lgsz, follyMask, pushTicket, cellPtr, pushed, popped, tlog>>
    /\ UNCHANGED <<fvars, spinCutoff, tdone, tghost>>
    /\ FollyFrame

\* cell.dequeue after waitFor has returned: ptr = c.ptr; c.ptr = null, and
\* c.tb.completeTurn(turn*2 + 1) is called
CellDequeue(p) ==
    /\ ycall[p].pc = "deq_wait"
    /\ tcall[p].pc = "wf_ret"
    /\ ycall' = [ycall EXCEPT ![p].pc = "deq_complete",
                              ![p].ptr = cellPtr[CellOf(ycall[p].ticket)]]
    /\ cellPtr' = [cellPtr EXCEPT ![CellOf(ycall[p].ticket)] = Null]
    /\ CompleteTurnCall(p, tcall[p].f, tcall[p].turn)
    /\ UNCHANGED <<lgsz, follyMask, pushTicket, popTicket, yops, pushed, popped>>
    /\ UNCHANGED <<fvars, spinCutoff, tdone, tghost, tlog, ysolo>>
    /\ FollyFrame

\* completeTurn has returned, and cell.dequeue, q.dequeue and Dequeue
\* return ptr
DequeueReturn(p) ==
    /\ ycall[p].pc = "deq_complete"
    /\ tcall[p].pc = "ct_ret"
    /\ popped' = popped \cup {<<ycall[p].ticket, ycall[p].ptr>>}
    /\ ycall' = [ycall EXCEPT ![p] = IdleOp]
    /\ tcall' = [tcall EXCEPT ![p] = IdleTurn]
    /\ tlog' = IF ycall[p].try
               THEN Append(tlog, [kind |-> "TryDequeue", ok |-> TRUE,
                                  ptr |-> ycall[p].ptr])
               ELSE tlog
    /\ UNCHANGED <<lgsz, follyMask, pushTicket, popTicket, cellPtr, yops, pushed>>
    /\ UNCHANGED <<fvars, spinCutoff, tdone, tghost, ysolo>>
    /\ FollyFrame

\* a step inside Enqueue or Dequeue after the ticket is taken
FollyRun(p) ==
    \/ CellEnqueue(p)
    \/ EnqueueReturn(p)
    \/ CellDequeue(p)
    \/ DequeueReturn(p)
    \/ TurnRun(p)
    \/ FutexRun(p)

\* ---- goroutines that call Enqueue and Dequeue as they like ----
FreeThreads == 1..NumFree

FreeEnqueue(p) ==
    /\ p \in FreeThreads
    /\ yops[p] < MaxCallsEach
    /\ pushTicket < MaxTickets
    /\ EnqueueCall(p)

FreeDequeue(p) ==
    /\ p \in FreeThreads
    /\ yops[p] < MaxCallsEach
    /\ popTicket < MaxTickets
    /\ DequeueCall(p)

FollyNext ==
    \E p \in Threads :
        \/ FreeEnqueue(p)
        \/ FreeDequeue(p)
        \/ FollyRun(p)

\* the Go scheduler runs every goroutine that can run; whether a goroutine
\* calls Enqueue or Dequeue is up to it
FollyFair == \A p \in Threads : WF_vars(FollyRun(p))

\* ---- TryEnqueue and TryDequeue ----

\* c.mayEnqueue(turn): c.tb.isTurn(turn * 2)
mayEnqueue(c, turn) == getTurnNumber(futex[BrokerOf(c)].State) = Wrap(turn * 2)

\* c.mayDequeue(turn): c.tb.isTurn(turn*2 + 1)
mayDequeue(c, turn) == getTurnNumber(futex[BrokerOf(c)].State) = Wrap(turn * 2 + 1)

\* a Try call begins: it is alone if nobody else is inside a call
StartsAlone(p) ==
    ysolo' = (ysolo /\ \A o \in Threads \ {p} : ycall[o].pc = "idle")

\* TryEnqueue(ptr) calls tryGetPushTicket:
\* curPush := atomic.LoadUintptr(&q.pushTicket)
TryEnqueueCall(p) ==
    /\ ycall[p].pc = "idle"
    /\ tcall[p].pc = "idle"
    /\ ycall' = [ycall EXCEPT ![p] =
          [IdleOp EXCEPT !.pc = "tp_check", !.cur = pushTicket, !.try = TRUE,
                         !.ptr = NextPayload]]
    /\ yops' = [yops EXCEPT ![p] = @ + 1]
    /\ StartsAlone(p)
    /\ UNCHANGED <<lgsz, follyMask, pushTicket, popTicket, cellPtr, pushed, popped, tlog>>
    /\ UNCHANGED <<fvars, tvars, qvars, bvars, pvars>>

\* if !c.mayEnqueue(curPush >> q.lgsz), for the cell of curPush: one load of
\* the broker's State
TryPushCheck(p) ==
    /\ ycall[p].pc = "tp_check"
    /\ ycall' = [ycall EXCEPT ![p].pc =
          IF mayEnqueue(CellOf(ycall[p].cur), TurnOf(ycall[p].cur))
          THEN "tp_cas" ELSE "tp_reload"]
    /\ UNCHANGED <<lgsz, follyMask, pushTicket, popTicket, cellPtr, yops, pushed,
                   popped, tlog, ysolo>>
    /\ UNCHANGED <<fvars, tvars, qvars, bvars, pvars>>

\* prev := curPush; curPush = atomic.LoadUintptr(&q.pushTicket);
\* if prev == curPush { return 0, false }, and TryEnqueue returns false
TryPushReload(p) ==
    /\ ycall[p].pc = "tp_reload"
    /\ IF ycall[p].cur = pushTicket
       THEN /\ ycall' = [ycall EXCEPT ![p] = IdleOp]
            /\ tlog' = Append(tlog, [kind |-> "TryEnqueue", ok |-> FALSE,
                                     ptr |-> ycall[p].ptr])
       ELSE /\ ycall' = [ycall EXCEPT ![p].pc = "tp_check", ![p].cur = pushTicket]
            /\ UNCHANGED tlog
    /\ UNCHANGED <<lgsz, follyMask, pushTicket, popTicket, cellPtr, yops, pushed,
                   popped, ysolo>>
    /\ UNCHANGED <<fvars, tvars, qvars, bvars, pvars>>

\* curPush, swapped = primitive.CompareAndSwapUintptr(&q.pushTicket, curPush,
\* curPush+1); if swapped { return curPush, true }, and TryEnqueue goes on to
\* q.enqueue(ticket, ptr) and cell.enqueue up to the call of c.tb.waitFor
TryPushCAS(p) ==
    /\ ycall[p].pc = "tp_cas"
    /\ LET r == CompareAndSwapUintptr(pushTicket, ycall[p].cur,
                                      Wrap(ycall[p].cur + 1))
           ticket == r.fresh
       IN  /\ pushTicket' = r.mem
           /\ IF r.swapped
              THEN /\ ycall' = [ycall EXCEPT ![p].pc = "enq_wait",
                                             ![p].ticket = ticket,
                                             ![p].claimed = ycall[p].cur,
                                             ![p].cur = 0]
                   /\ pushed' = pushed \cup {<<ticket, ycall[p].ptr>>}
                   /\ WaitForCall(p, BrokerOf(CellOf(ticket)), PushCutoff,
                                  Wrap(TurnOf(ticket) * 2), MaybeUpdateSpin(ticket))
              ELSE /\ ycall' = [ycall EXCEPT ![p].pc = "tp_check", ![p].cur = r.fresh]
                   /\ UNCHANGED <<pushed, tcall>>
    /\ UNCHANGED <<lgsz, follyMask, popTicket, cellPtr, yops, popped, tlog, ysolo>>
    /\ UNCHANGED <<fvars, spinCutoff, tdone, tghost, tclaimed, qvars, bvars, pvars>>

\* TryDequeue() calls tryGetPopTicket:
\* curPop := atomic.LoadUintptr(&q.popTicket)
TryDequeueCall(p) ==
    /\ ycall[p].pc = "idle"
    /\ tcall[p].pc = "idle"
    /\ ycall' = [ycall EXCEPT ![p] =
          [IdleOp EXCEPT !.pc = "tq_check", !.cur = popTicket, !.try = TRUE]]
    /\ yops' = [yops EXCEPT ![p] = @ + 1]
    /\ StartsAlone(p)
    /\ UNCHANGED <<lgsz, follyMask, pushTicket, popTicket, cellPtr, pushed, popped, tlog>>
    /\ UNCHANGED <<fvars, tvars, qvars, bvars, pvars>>

\* if !c.mayDequeue(curPop >> q.lgsz), for the cell of curPop
TryPopCheck(p) ==
    /\ ycall[p].pc = "tq_check"
    /\ ycall' = [ycall EXCEPT ![p].pc =
          IF mayDequeue(CellOf(ycall[p].cur), TurnOf(ycall[p].cur))
          THEN "tq_cas" ELSE "tq_reload"]
    /\ UNCHANGED <<lgsz, follyMask, pushTicket, popTicket, cellPtr, yops, pushed,
                   popped, tlog, ysolo>>
    /\ UNCHANGED <<fvars, tvars, qvars, bvars, pvars>>

\* prev := curPop; curPop = atomic.LoadUintptr(&q.popTicket);
\* if prev == curPop { return 0, false }, and TryDequeue returns false
TryPopReload(p) ==
    /\ ycall[p].pc = "tq_reload"
    /\ IF ycall[p].cur = popTicket
       THEN /\ ycall' = [ycall EXCEPT ![p] = IdleOp]
            /\ tlog' = Append(tlog, [kind |-> "TryDequeue", ok |-> FALSE,
                                     ptr |-> Null])
       ELSE /\ ycall' = [ycall EXCEPT ![p].pc = "tq_check", ![p].cur = popTicket]
            /\ UNCHANGED tlog
    /\ UNCHANGED <<lgsz, follyMask, pushTicket, popTicket, cellPtr, yops, pushed,
                   popped, ysolo>>
    /\ UNCHANGED <<fvars, tvars, qvars, bvars, pvars>>

\* curPop, swapped = primitive.CompareAndSwapUintptr(&q.popTicket, curPop,
\* curPop+1); if swapped { return curPop, true }, and TryDequeue goes on to
\* q.dequeue(ticket) and cell.dequeue up to the call of c.tb.waitFor
TryPopCAS(p) ==
    /\ ycall[p].pc = "tq_cas"
    /\ LET r == CompareAndSwapUintptr(popTicket, ycall[p].cur,
                                      Wrap(ycall[p].cur + 1))
           ticket == r.fresh
       IN  /\ popTicket' = r.mem
           /\ IF r.swapped
              THEN /\ ycall' = [ycall EXCEPT ![p].pc = "deq_wait",
                                             ![p].ticket = ticket,
                                             ![p].claimed = ycall[p].cur,
                                             ![p].cur = 0]
                   /\ WaitForCall(p, BrokerOf(CellOf(ticket)), PopCutoff,
                                  Wrap(TurnOf(ticket) * 2 + 1), MaybeUpdateSpin(ticket))
              ELSE /\ ycall' = [ycall EXCEPT ![p].pc = "tq_check", ![p].cur = r.fresh]
                   /\ UNCHANGED tcall
    /\ UNCHANGED <<lgsz, follyMask, pushTicket, cellPtr, yops, pushed, popped, tlog,
                   ysolo>>
    /\ UNCHANGED <<fvars, spinCutoff, tdone, tghost, tclaimed, qvars, bvars, pvars>>

\* a step inside tryGetPushTicket or tryGetPopTicket
TryRun(p) ==
    \/ TryPushCheck(p)
    \/ TryPushReload(p)
    \/ TryPushCAS(p)
    \/ TryPopCheck(p)
    \/ TryPopReload(p)
    \/ TryPopCAS(p)

\* ---- goroutines that call the Try operations as they like, the last of
\* them Enqueue and Dequeue as well ----
Blockers == {NumFree}

FreeTryEnqueue(p) ==
    /\ p \in FreeThreads
    /\ yops[p] < MaxTryCalls
    /\ TryEnqueueCall(p)

FreeTryDequeue(p) ==
    /\ p \in FreeThreads
    /\ yops[p] < MaxTryCalls
    /\ TryDequeueCall(p)

FreeEnqueueToo(p) ==
    /\ p \in Blockers
    /\ yops[p] < MaxTryCalls
    /\ pushTicket < MaxTickets
    /\ EnqueueCall(p)

FreeDequeueToo(p) ==
    /\ p \in Blockers
    /\ yops[p] < MaxTryCalls
    /\ popTicket < MaxTickets
    /\ DequeueCall(p)

TryNext ==
    \E p \in Threads :
        \/ FreeTryEnqueue(p)
        \/ FreeTryDequeue(p)
        \/ FreeEnqueueToo(p)
        \/ FreeDequeueToo(p)
        \/ TryRun(p)
        \/ FollyRun(p)

\* every goroutine that can run does
TryFair == \A p \in Threads : WF_vars(TryRun(p) \/ FollyRun(p))

\* ---- a crowd of producers on a full queue, and one consumer ----
CrowdProducers == 1..(NumThreads + NumCrowd - 1)
CrowdConsumers == {NumThreads + NumCrowd}

\* parked in Wait, or not in a call
AtRest(q) == node[q].parked \/ ycall[q].pc = "idle"

\* the producers call Enqueue once each, one after the other: each when the
\* ones before it have returned or are parked
CrowdEnqueue(p) ==
    /\ p \in CrowdProducers
    /\ yops[p] = 0
    /\ \A q \in CrowdProducers : q < p => (yops[q] = 1 /\ AtRest(q))
    /\ EnqueueCall(p)

\* the consumer calls Dequeue again and again, once every producer has
\* called and has returned or is parked
CrowdDequeue(p) ==
    /\ p \in CrowdConsumers
    /\ \A q \in CrowdProducers : yops[q] = 1 /\ AtRest(q)
    /\ popTicket < pushTicket
    /\ DequeueCall(p)

CrowdNext ==
    \E p \in Threads :
        \/ CrowdEnqueue(p)
        \/ CrowdDequeue(p)
        \/ FollyRun(p)

\* every goroutine that can run does, and the consumer goes on dequeuing
CrowdFair ==
    /\ FollyFair
    /\ \A p \in CrowdConsumers : WF_vars(CrowdDequeue(p))



Producers == 1..NumProducers
Consumers == (NumProducers + 1)..(NumProducers + NumConsumers)
QProcs == Producers \cup Consumers

Variants == {"mpmc", "mpsc", "spmc", "spsc"}

MultiProducer == variant \in {"mpmc", "mpsc"}
MultiConsumer == variant \in {"mpmc", "spmc"}

\* the goroutines that may call TryEnqueue / TryDequeue on this variant
Enqueuers == IF MultiProducer THEN Producers ELSE {1}
Dequeuers == IF MultiConsumer THEN Consumers ELSE {NumProducers + 1}

size == mask + 1

\* New(size): cell i of the queue proper starts with seq = i, ptr = nil
New(req) ==
    LET size2 == Next2(req)
    IN  /\ mask = Wrap(size2 - 1)
        /\ cells = [i \in 0..(size2 - 1) |-> [seq |-> Wrap((i + 1) - 1), ptr |-> Null]]
        /\ enqPos = 0
        /\ deqPos = 0

\* nobody has called the queue yet
QAtRest ==
    /\ qpc = [p \in QProcs |-> "idle"]
    /\ qpos = [p \in QProcs |-> 0]
    /\ qc = [p \in QProcs |-> 0]
    /\ qptr = [p \in QProcs |-> Null]
    /\ qsolo = [p \in QProcs |-> FALSE]
    /\ nextItem = 1
    /\ accepted = <<>>
    /\ returned = <<>>
    /\ claims = {}
    /\ eclaims = {}
    /\ missed = FALSE

QInit ==
    /\ variant \in Variants
    /\ \E req \in 1..MaxReq : New(req)
    /\ QAtRest

OthersIdle(p) == \A o \in QProcs \ {p} : qpc[o] = "idle"

\* a call that starts ends the solitude of every call in flight
StartCall(p) ==
    qsolo' = [o \in QProcs |-> IF o = p THEN OthersIdle(p) ELSE FALSE]

\* mask is set once by New; the queue's callers do not touch the block
QUnchangedShared == UNCHANGED <<variant, mask, eclaims, missed, bvars, xvars>>

\* the frame of the steps that claim an enqueue position, and of those in
\* which TryDequeue may return false
QClaimFrame == UNCHANGED <<variant, mask, missed, bvars, xvars>>
QMissFrame == UNCHANGED <<variant, mask, eclaims, bvars, xvars>>

\* TryDequeue returns false to p: is a payload that was accepted still to be
\* returned, with no other TryDequeue in flight?
Misses(p) ==
    /\ Len(accepted) > Len(returned)
    /\ \A o \in Dequeuers \ {p} : qpc[o] = "idle"

(***************************************************************************)
(* TryEnqueue of mpmcdvq and mpscdvq (the same code).                      *)
(***************************************************************************)
\* the caller picks its payload (a fresh one, or the one a failed call left)
\* and TryEnqueue loads enqPos
MPTryEnqueueBegin(p) ==
    /\ MultiProducer /\ p \in Enqueuers
    /\ qpc[p] = "idle"
    /\ IF qptr[p] = Null
       THEN /\ nextItem <= MaxItems
            /\ qptr' = [qptr EXCEPT ![p] = nextItem]
            /\ nextItem' = nextItem + 1
       ELSE UNCHANGED <<qptr, nextItem>>
    /\ qpos' = [qpos EXCEPT ![p] = enqPos]
    /\ qpc' = [qpc EXCEPT ![p] = "e_seq"]
    /\ StartCall(p)
    /\ QUnchangedShared
    /\ UNCHANGED <<cells, enqPos, deqPos, qc, accepted, returned, claims>>

\* load the cell's seq and compare it with pos
MPTryEnqueueSeq(p) ==
    /\ MultiProducer /\ qpc[p] = "e_seq"
    /\ LET c == BitAnd(qpos[p], mask)
           seq == cells[c].seq
           cmp == ToInt(Wrap(seq - qpos[p]))
       IN  /\ qc' = [qc EXCEPT ![p] = c]
           /\ qpc' = [qpc EXCEPT ![p] =
                  IF cmp = 0 THEN "e_cas" ELSE IF cmp < 0 THEN "idle" ELSE "e_reload"]
    /\ QUnchangedShared
    /\ UNCHANGED <<cells, enqPos, deqPos, qpos, qptr, qsolo, nextItem,
                   accepted, returned, claims>>

\* pos = atomic.LoadUintptr(&q.enqPos) at the end of the loop body
MPTryEnqueueReload(p) ==
    /\ MultiProducer /\ qpc[p] = "e_reload"
    /\ qpos' = [qpos EXCEPT ![p] = enqPos]
    /\ qpc' = [qpc EXCEPT ![p] = "e_seq"]
    /\ QUnchangedShared
    /\ UNCHANGED <<cells, enqPos, deqPos, qc, qptr, qsolo, nextItem,
                   accepted, returned, claims>>

\* claim the position: CAS enqPos from pos to pos+1, pos takes the fresh value
MPTryEnqueueCAS(p) ==
    /\ MultiProducer /\ qpc[p] = "e_cas"
    /\ LET r == CompareAndSwapUintptr(enqPos, qpos[p], Wrap(qpos[p] + 1))
       IN  /\ enqPos' = r.mem
           /\ qpos' = [qpos EXCEPT ![p] = r.fresh]
           /\ qpc' = [qpc EXCEPT ![p] = IF r.swapped THEN "e_ptr" ELSE "e_seq"]
           /\ eclaims' = IF r.swapped THEN eclaims \cup {<<qpos[p], qptr[p]>>}
                         ELSE eclaims
    /\ QClaimFrame
    /\ UNCHANGED <<cells, deqPos, qc, qptr, qsolo, nextItem,
                   accepted, returned, claims>>

\* c.ptr = ptr
MPTryEnqueuePtr(p) ==
    /\ MultiProducer /\ qpc[p] = "e_ptr"
    /\ cells' = [cells EXCEPT ![qc[p]].ptr = qptr[p]]
    /\ qpc' = [qpc EXCEPT ![p] = "e_store"]
    /\ QUnchangedShared
    /\ UNCHANGED <<enqPos, deqPos, qpos, qc, qptr, qsolo, nextItem,
                   accepted, returned, claims>>

\* atomic.StoreUintptr(&c.seq, pos); return true
MPTryEnqueueStore(p) ==
    /\ MultiProducer /\ qpc[p] = "e_store"
    /\ cells' = [cells EXCEPT ![qc[p]].seq = qpos[p]]
    /\ accepted' = Append(accepted, qptr[p])
    /\ qptr' = [qptr EXCEPT ![p] = Null]
    /\ qpc' = [qpc EXCEPT ![p] = "idle"]
    /\ QUnchangedShared
    /\ UNCHANGED <<enqPos, deqPos, qpos, qc, qsolo, nextItem, returned, claims>>

(***************************************************************************)
(* TryEnqueue of spscdvq and spmcdvq (the same code).                      *)
(***************************************************************************)
SPTryEnqueueBegin(p) ==
    /\ ~MultiProducer /\ p \in Enqueuers
    /\ qpc[p] = "idle"
    /\ IF qptr[p] = Null
       THEN /\ nextItem <= MaxItems
            /\ qptr' = [qptr EXCEPT ![p] = nextItem]
            /\ nextItem' = nextItem + 1
       ELSE UNCHANGED <<qptr, nextItem>>
    /\ qpc' = [qpc EXCEPT ![p] = "e_seq"]
    /\ StartCall(p)
    /\ QUnchangedShared
    /\ UNCHANGED <<cells, enqPos, deqPos, qpos, qc, accepted, returned, claims>>

\* c := &q.cells[q.enqPos&q.mask]; seq := load; if seq < q.enqPos { return }
SPTryEnqueueSeq(p) ==
    /\ ~MultiProducer /\ qpc[p] = "e_seq"
    /\ LET c == BitAnd(enqPos, mask)
           seq == cells[c].seq
       IN  /\ qc' = [qc EXCEPT ![p] = c]
           /\ qpc' = [qpc EXCEPT ![p] = IF seq < enqPos THEN "idle" ELSE "e_inc"]
    /\ QUnchangedShared
    /\ UNCHANGED <<cells, enqPos, deqPos, qpos, qptr, qsolo, nextItem,
                   accepted, returned, claims>>

\* q.enqPos++
SPTryEnqueueInc(p) ==
    /\ ~MultiProducer /\ qpc[p] = "e_inc"
    /\ enqPos' = Wrap(enqPos + 1)
    /\ eclaims' = eclaims \cup {<<enqPos, qptr[p]>>}
    /\ qpc' = [qpc EXCEPT ![p] = "e_ptr"]
    /\ QClaimFrame
    /\ UNCHANGED <<cells, deqPos, qpos, qc, qptr, qsolo, nextItem,
                   accepted, returned, claims>>

\* c.ptr = ptr
SPTryEnqueuePtr(p) ==
    /\ ~MultiProducer /\ qpc[p] = "e_ptr"
    /\ cells' = [cells EXCEPT ![qc[p]].ptr = qptr[p]]
    /\ qpc' = [qpc EXCEPT ![p] = "e_store"]
    /\ QUnchangedShared
    /\ UNCHANGED <<enqPos, deqPos, qpos, qc, qptr, qsolo, nextItem,
                   accepted, returned, claims>>

\* atomic.StoreUintptr(&c.seq, q.enqPos); return true
SPTryEnqueueStore(p) ==
    /\ ~MultiProducer /\ qpc[p] = "e_store"
    /\ cells' = [cells EXCEPT ![qc[p]].seq = enqPos]
    /\ accepted' = Append(accepted, qptr[p])
    /\ qptr' = [qptr EXCEPT ![p] = Null]
    /\ qpc' = [qpc EXCEPT ![p] = "idle"]
    /\ QUnchangedShared
    /\ UNCHANGED <<enqPos, deqPos, qpos, qc, qsolo, nextItem, returned, claims>>

(***************************************************************************)
(* TryDequeue of mpmcdvq and spmcdvq (the same code).                      *)
(***************************************************************************)
MCTryDequeueBegin(p) ==
    /\ MultiConsumer /\ p \in Dequeuers
    /\ qpc[p] = "idle"
    /\ qpos' = [qpos EXCEPT ![p] = deqPos]
    /\ qptr' = [qptr EXCEPT ![p] = Null]
    /\ qpc' = [qpc EXCEPT ![p] = "d_seq"]
    /\ StartCall(p)
    /\ QUnchangedShared
    /\ UNCHANGED <<cells, enqPos, deqPos, qc, nextItem, accepted, returned, claims>>

MCTryDequeueSeqGivesUp(p) ==
    /\ MultiConsumer /\ qpc[p] = "d_seq"
    /\ LET c == BitAnd(qpos[p], mask)
           seq == cells[c].seq
           cmp == ToInt(Wrap(seq - Wrap(qpos[p] + 1)))
       IN  /\ qc' = [qc EXCEPT ![p] = c]
           /\ qpc' = [qpc EXCEPT ![p] = IF cmp <= 0 THEN "idle" ELSE "d_reload"]
           /\ missed' = (missed \/ (cmp <= 0 /\ Misses(p)))
    /\ QMissFrame
    /\ UNCHANGED <<cells, enqPos, deqPos, qpos, qptr, qsolo, nextItem,
                   accepted, returned, claims>>
\* load the cell's seq and compare it with pos + 1
MCTryDequeueSeq(p) ==
    /\ MultiConsumer /\ qpc[p] = "d_seq"
    /\ LET c == BitAnd(qpos[p], mask)
           seq == cells[c].seq
           cmp == ToInt(Wrap(seq - Wrap(qpos[p] + 1)))
       IN  /\ qc' = [qc EXCEPT ![p] = c]
           /\ qpc' = [qpc EXCEPT ![p] =
                  IF cmp = 0 THEN "d_cas" ELSE IF cmp < 0 THEN "idle" ELSE "d_reload"]
           /\ missed' = (missed \/ (cmp < 0 /\ Misses(p)))
    /\ QMissFrame
    /\ UNCHANGED <<cells, enqPos, deqPos, qpos, qptr, qsolo, nextItem,
                   accepted, returned, claims>>

MCTryDequeueReload(p) ==
    /\ MultiConsumer /\ qpc[p] = "d_reload"
    /\ qpos' = [qpos EXCEPT ![p] = deqPos]
    /\ qpc' = [qpc EXCEPT ![p] = "d_seq"]
    /\ QUnchangedShared
    /\ UNCHANGED <<cells, enqPos, deqPos, qc, qptr, qsolo, nextItem,
                   accepted, returned, claims>>

MCTryDequeueCAS(p) ==
    /\ MultiConsumer /\ qpc[p] = "d_cas"
    /\ LET r == CompareAndSwapUintptr(deqPos, qpos[p], Wrap(qpos[p] + 1))
       IN  /\ deqPos' = r.mem
           /\ qpos' = [qpos EXCEPT ![p] = r.fresh]
           /\ qpc' = [qpc EXCEPT ![p] = IF r.swapped THEN "d_ptr" ELSE "d_seq"]
    /\ QUnchangedShared
    /\ UNCHANGED <<cells, enqPos, qc, qptr, qsolo, nextItem,
                   accepted, returned, claims>>

\* ptr = c.ptr; c.ptr = primitive.Null
MCTryDequeuePtr(p) ==
    /\ MultiConsumer /\ qpc[p] = "d_ptr"
    /\ qptr' = [qptr EXCEPT ![p] = cells[qc[p]].ptr]
    /\ cells' = [cells EXCEPT ![qc[p]].ptr = Null]
    /\ qpc' = [qpc EXCEPT ![p] = "d_store"]
    /\ QUnchangedShared
    /\ UNCHANGED <<enqPos, deqPos, qpos, qc, qsolo, nextItem,
                   accepted, returned, claims>>

\* atomic.StoreUintptr(&c.seq, pos+q.mask); return ptr, true
MCTryDequeueStore(p) ==
    /\ MultiConsumer /\ qpc[p] = "d_store"
    /\ cells' = [cells EXCEPT ![qc[p]].seq = Wrap(qpos[p] + mask)]
    /\ returned' = Append(returned, qptr[p])
    /\ claims' = claims \cup {<<Wrap(qpos[p] - 1), qptr[p]>>}
    /\ qpc' = [qpc EXCEPT ![p] = "idle"]
    /\ QUnchangedShared
    /\ UNCHANGED <<enqPos, deqPos, qpos, qc, qptr, qsolo, nextItem, accepted>>

(***************************************************************************)
(* TryDequeue of spscdvq and mpscdvq (the same code).                      *)
(***************************************************************************)
SCTryDequeueBegin(p) ==
    /\ ~MultiConsumer /\ p \in Dequeuers
    /\ qpc[p] = "idle"
    /\ qptr' = [qptr EXCEPT ![p] = Null]
    /\ qpc' = [qpc EXCEPT ![p] = "d_seq"]
    /\ StartCall(p)
    /\ QUnchangedShared
    /\ UNCHANGED <<cells, enqPos, deqPos, qpos, qc, nextItem, accepted, returned, claims>>

\* c := &q.cells[q.deqPos&q.mask]; seq := load; if seq < q.deqPos+1 { return }
SCTryDequeueSeq(p) ==
    /\ ~MultiConsumer /\ qpc[p] = "d_seq"
    /\ LET c == BitAnd(deqPos, mask)
           seq == cells[c].seq
       IN  /\ qc' = [qc EXCEPT ![p] = c]
           /\ qpc' = [qpc EXCEPT ![p] =
                  IF seq < Wrap(deqPos + 1) THEN "idle" ELSE "d_inc"]
           /\ missed' = (missed \/ (seq < Wrap(deqPos + 1) /\ Misses(p)))
    /\ QMissFrame
    /\ UNCHANGED <<cells, enqPos, deqPos, qpos, qptr, qsolo, nextItem,
                   accepted, returned, claims>>

\* q.deqPos++
SCTryDequeueInc(p) ==
    /\ ~MultiConsumer /\ qpc[p] = "d_inc"
    /\ deqPos' = Wrap(deqPos + 1)
    /\ qpc' = [qpc EXCEPT ![p] = "d_ptr"]
    /\ QUnchangedShared
    /\ UNCHANGED <<cells, enqPos, qpos, qc, qptr, qsolo, nextItem,
                   accepted, returned, claims>>

\* ptr = c.ptr; c.ptr = primitive.Null
SCTryDequeuePtr(p) ==
    /\ ~MultiConsumer /\ qpc[p] = "d_ptr"
    /\ qptr' = [qptr EXCEPT ![p] = cells[qc[p]].ptr]
    /\ cells' = [cells EXCEPT ![qc[p]].ptr = Null]
    /\ qpc' = [qpc EXCEPT ![p] = "d_store"]
    /\ QUnchangedShared
    /\ UNCHANGED <<enqPos, deqPos, qpos, qc, qsolo, nextItem,
                   accepted, returned, claims>>

\* atomic.StoreUintptr(&c.seq, q.deqPos+q.mask); return ptr, true
SCTryDequeueStore(p) ==
    /\ ~MultiConsumer /\ qpc[p] = "d_store"
    /\ cells' = [cells EXCEPT ![qc[p]].seq = Wrap(deqPos + mask)]
    /\ returned' = Append(returned, qptr[p])
    /\ claims' = claims \cup {<<Wrap(deqPos - 1), qptr[p]>>}
    /\ qpc' = [qpc EXCEPT ![p] = "idle"]
    /\ QUnchangedShared
    /\ UNCHANGED <<enqPos, deqPos, qpos, qc, qptr, qsolo, nextItem, accepted>>

QNext ==
    \E p \in QProcs :
        \/ MPTryEnqueueBegin(p)
        \/ MPTryEnqueueSeq(p)
        \/ MPTryEnqueueReload(p)
        \/ MPTryEnqueueCAS(p)
        \/ MPTryEnqueuePtr(p)
        \/ MPTryEnqueueStore(p)
        \/ SPTryEnqueueBegin(p)
        \/ SPTryEnqueueSeq(p)
        \/ SPTryEnqueueInc(p)
        \/ SPTryEnqueuePtr(p)
        \/ SPTryEnqueueStore(p)
        \/ MCTryDequeueBegin(p)
        \/ MCTryDequeueSeq(p)
        \/ MCTryDequeueReload(p)
        \/ MCTryDequeueCAS(p)
        \/ MCTryDequeuePtr(p)
        \/ MCTryDequeueStore(p)
        \/ SCTryDequeueBegin(p)
        \/ SCTryDequeueSeq(p)
        \/ SCTryDequeueInc(p)
        \/ SCTryDequeuePtr(p)
        \/ SCTryDequeueStore(p)

(***************************************************************************)
(* Block and its lock (block/block.go), used as BlockDVQ uses them: a      *)
(* waiter wraps an operation that can fail in Prime / Cancel / Wait, a     *)
(* partner calls Signal after every successful operation.                  *)
(***************************************************************************)
Waiters == 1..NumWaiters
Signallers == (NumWaiters + 1)..(NumWaiters + NumSignallers)
BProcs == Waiters \cup Signallers

\* const highBit uint32 = 1 << 31
highBit == Pow2(Word32Bits - 1)

\* atomic.AddUint32: the new value
AddUint32(cur, delta) == (cur + delta) % Word32Mod

\* x&highBit != 0
HasHighBit(x) == (x \div highBit) % 2 = 1

\* x &^ highBit
ClearHighBit(x) == IF HasHighBit(x) THEN x - highBit ELSE x

\* primitive.CompareAndSwapUint32(addr, old, new) on a word holding cur
CompareAndSwapUint32(cur, old, new) ==
    IF cur = old
    THEN [mem |-> new, fresh |-> new, swapped |-> TRUE]
    ELSE [mem |-> cur, fresh |-> cur, swapped |-> FALSE]

\* the program counters inside Block.Wait
WaitPcs == {"wt_load", "wt_dec1", "rl_load", "rl_cas", "wt_check", "wt_dec2",
            "wt_unlock", "cw_add", "cw_unlock", "cw_park"}

\* the runs: some waiters and some signallers, MaxGoroutines in all
Teams ==
    {(1..t[1]) \cup ((NumWaiters + 1)..(NumWaiters + t[2])) :
        t \in {u \in (1..NumWaiters) \X (1..NumSignallers) :
                  u[1] + u[2] = MaxGoroutines}}

\* the run with every signaller
LockTeam == (1..(MaxGoroutines - NumSignallers)) \cup Signallers

\* the partner operations of a run
MaxOps == OpsEach * Cardinality(team \cap Signallers)

\* block.New, with every goroutine outside the block
BAtRest ==
    /\ waiters = 0
    /\ counter = 0
    /\ lwrite = 0
    /\ lread = 0
    /\ notify = {}
    /\ avail = 0
    /\ ops = 0
    /\ bpc = [p \in BProcs |-> "idle"]
    /\ bprimer = [p \in BProcs |-> 0]
    /\ bprimed = [p \in BProcs |-> FALSE]
    /\ blast = [p \in BProcs |-> 0]
    /\ bread = [p \in BProcs |-> 0]
    /\ net = [p \in BProcs |-> 0]
    /\ owed = [p \in BProcs |-> FALSE]
    /\ debt = 0
    /\ wrote = [p \in BProcs |-> 0]
    /\ sigval = 0

BInit == team \in Teams /\ BAtRest

\* the goroutine moves on; the block's callers do not touch the queue here
Goto(p, l) == bpc' = [bpc EXCEPT ![p] = l] /\ UNCHANGED <<qvars, xvars>>

\* ---- the waiter's loop (BlockDVQ.Dequeue) ----

\* the caller enters its loop
WaiterBegin(w) ==
    /\ w \in Waiters \cap team /\ bpc[w] = "idle"
    /\ Goto(w, "w_try1")
    /\ UNCHANGED <<team, waiters, counter, lwrite, lread, notify, avail, ops,
                   bprimer, bprimed, blast, bread, net, owed, debt,
                   wrote, sigval>>

\* the first try; on failure primer and primed start at their zero values
WaiterTry1(w) ==
    /\ bpc[w] = "w_try1"
    /\ IF avail > 0
       THEN /\ avail' = avail - 1
            /\ Goto(w, "idle")
            /\ UNCHANGED <<bprimer, bprimed, blast>>
       ELSE /\ bprimer' = [bprimer EXCEPT ![w] = 0]
            /\ bprimed' = [bprimed EXCEPT ![w] = FALSE]
            /\ blast' = [blast EXCEPT ![w] = 0]
            /\ Goto(w, "p_load1")
            /\ UNCHANGED avail
    /\ UNCHANGED <<team, waiters, counter, lwrite, lread, notify, ops, bread,
                   net, owed, debt,
                   wrote, sigval>>

\* the try after Prime: success cancels a primed block, failure waits if
\* primed and primes again (with last = primer) if not
WaiterTry2(w) ==
    /\ bpc[w] = "w_try2"
    /\ IF avail > 0
       THEN /\ avail' = avail - 1
            /\ Goto(w, IF bprimed[w] THEN "w_cancel" ELSE "idle")
            /\ bprimer' = [bprimer EXCEPT ![w] = 0]
            /\ bprimed' = [bprimed EXCEPT ![w] = FALSE]
            /\ UNCHANGED blast
       ELSE /\ UNCHANGED <<avail, bprimer, bprimed>>
            /\ IF bprimed[w]
               THEN Goto(w, "wt_load") /\ UNCHANGED blast
               ELSE Goto(w, "p_load1") /\ blast' = [blast EXCEPT ![w] = bprimer[w]]
    /\ UNCHANGED <<team, waiters, counter, lwrite, lread, notify, ops,
                   bread, net, owed, debt,
                   wrote, sigval>>

\* ---- Block.Prime ----

\* primer = atomic.LoadUintptr(&b.counter); if primer != last { return }
PrimeLoad1(w) ==
    /\ bpc[w] = "p_load1"
    /\ bprimer' = [bprimer EXCEPT ![w] = counter]
    /\ Goto(w, IF counter # blast[w] THEN "w_try2" ELSE "p_load2")
    /\ blast' = [blast EXCEPT ![w] = IF counter # @ THEN 0 ELSE @]
    /\ UNCHANGED <<team, waiters, counter, lwrite, lread, notify, avail, ops,
                   bprimed, bread, net, owed, debt,
                   wrote, sigval>>

\* runtime.Gosched(); primer = atomic.LoadUintptr(&b.counter); primer != last
PrimeLoad2(w) ==
    /\ bpc[w] = "p_load2"
    /\ bprimer' = [bprimer EXCEPT ![w] = counter]
    /\ Goto(w, IF counter # blast[w] THEN "w_try2" ELSE "p_write")
    /\ blast' = [blast EXCEPT ![w] = 0]
    /\ UNCHANGED <<team, waiters, counter, lwrite, lread, notify, avail, ops,
                   bprimed, bread, net, owed, debt,
                   wrote, sigval>>

PrimeWriteIgnores(w) ==
    /\ bpc[w] = "p_write"
    /\ Goto(w, "p_add")
    /\ UNCHANGED <<team, waiters, counter, lwrite, lread, notify, avail, ops,
                   bprimer, bprimed, blast, bread, net, owed, debt,
                   wrote, sigval>>
\* || atomic.LoadUint32(&b.lock.write) != 0 { return }
PrimeWrite(w) ==
    /\ bpc[w] = "p_write"
    /\ Goto(w, IF lwrite # 0 THEN "w_try2" ELSE "p_add")
    /\ UNCHANGED <<team, waiters, counter, lwrite, lread, notify, avail, ops,
                   bprimer, bprimed, blast, bread, net, owed, debt,
                   wrote, sigval>>

\* primed = true; atomic.AddInt32(&b.waiters, 1)
PrimeAdd(w) ==
    /\ bpc[w] = "p_add"
    /\ bprimed' = [bprimed EXCEPT ![w] = TRUE]
    /\ waiters' = waiters + 1
    /\ net' = [net EXCEPT ![w] = @ + (waiters' - waiters)]
    /\ Goto(w, "w_try2")
    /\ UNCHANGED <<team, counter, lwrite, lread, notify, avail, ops,
                   bprimer, blast, bread, owed, debt,
                   wrote, sigval>>

\* ---- Block.Cancel ----

\* a Cancel that forgets the decrement
CancelForgets(w) ==
    /\ bpc[w] = "w_cancel"
    /\ Goto(w, "w_cancelled")
    /\ UNCHANGED <<team, waiters, counter, lwrite, lread, notify, avail, ops,
                   bprimer, bprimed, blast, bread, net, owed, debt,
                   wrote, sigval>>

\* atomic.AddInt32(&b.waiters, -1)
Cancel(w) ==
    /\ bpc[w] = "w_cancel"
    /\ waiters' = waiters - 1
    /\ net' = [net EXCEPT ![w] = @ + (waiters' - waiters)]
    /\ Goto(w, "w_cancelled")
    /\ UNCHANGED <<team, counter, lwrite, lread, notify, avail, ops,
                   bprimer, bprimed, blast, bread, owed, debt,
                   wrote, sigval>>

\* after Cancel the caller signals its partner's block and returns
WaiterReturn(w) ==
    /\ bpc[w] = "w_cancelled"
    /\ Goto(w, "idle")
    /\ UNCHANGED <<team, waiters, counter, lwrite, lread, notify, avail, ops,
                   bprimer, bprimed, blast, bread, net, owed, debt,
                   wrote, sigval>>

\* ---- Block.Wait ----

\* runtime.Gosched(); if primer != atomic.LoadUintptr(&b.counter)
WaitLoad(w) ==
    /\ bpc[w] = "wt_load"
    /\ Goto(w, IF bprimer[w] # counter THEN "wt_dec1" ELSE "rl_load")
    /\ UNCHANGED <<team, waiters, counter, lwrite, lread, notify, avail, ops,
                   bprimer, bprimed, blast, bread, net, owed, debt,
                   wrote, sigval>>

\* atomic.AddInt32(&b.waiters, -1); return
WaitDec1(w) ==
    /\ bpc[w] = "wt_dec1"
    /\ waiters' = waiters - 1
    /\ net' = [net EXCEPT ![w] = @ + (waiters' - waiters)]
    /\ owed' = [owed EXCEPT ![w] = FALSE]
    /\ bprimer' = [bprimer EXCEPT ![w] = 0]
    /\ bprimed' = [bprimed EXCEPT ![w] = FALSE]
    /\ Goto(w, "w_try1")
    /\ UNCHANGED <<team, counter, lwrite, lread, notify, avail, ops,
                   blast, bread, debt, wrote, sigval>>

\* lock.TryRLock: read := atomic.LoadUint32(&l.read)
TryRLockLoad(w) ==
    /\ bpc[w] = "rl_load"
    /\ bread' = [bread EXCEPT ![w] = lread]
    /\ Goto(w, "rl_cas")
    /\ UNCHANGED <<team, waiters, counter, lwrite, lread, notify, avail, ops,
                   bprimer, bprimed, blast, net, owed, debt,
                   wrote, sigval>>

\* a TryRLock that does not look at the high bit
TryRLockCASBlind(w) ==
    /\ bpc[w] = "rl_cas"
    /\ LET r == CompareAndSwapUint32(lread, bread[w], AddUint32(bread[w], 1))
       IN  /\ lread' = r.mem
           /\ bread' = [bread EXCEPT ![w] = IF r.swapped THEN 0 ELSE r.fresh]
           /\ Goto(w, IF r.swapped THEN "wt_check" ELSE "rl_cas")
    /\ UNCHANGED <<team, waiters, counter, lwrite, notify, avail, ops,
                   bprimer, bprimed, blast, net, owed, debt,
                   wrote, sigval>>

\* lock.TryRLock, one turn of the loop: give up if a writer has the lock,
\* else CAS read to read+1
TryRLockCAS(w) ==
    /\ bpc[w] = "rl_cas"
    /\ IF HasHighBit(bread[w])
       THEN /\ Goto(w, "wt_load")
            /\ bread' = [bread EXCEPT ![w] = 0]
            /\ UNCHANGED lread
       ELSE LET r == CompareAndSwapUint32(lread, bread[w], AddUint32(bread[w], 1))
            IN  /\ lread' = r.mem
                /\ bread' = [bread EXCEPT ![w] = IF r.swapped THEN 0 ELSE r.fresh]
                /\ Goto(w, IF r.swapped THEN "wt_check" ELSE "rl_cas")
    /\ UNCHANGED <<team, waiters, counter, lwrite, notify, avail, ops,
                   bprimer, bprimed, blast, net, owed, debt,
                   wrote, sigval>>

\* with the reader lock held: if primer != b.counter
WaitCheck(w) ==
    /\ bpc[w] = "wt_check"
    /\ Goto(w, IF bprimer[w] # counter THEN "wt_dec2" ELSE "cw_add")
    /\ UNCHANGED <<team, waiters, counter, lwrite, lread, notify, avail, ops,
                   bprimer, bprimed, blast, bread, net, owed, debt,
                   wrote, sigval>>

\* a Wait that returns under the reader lock without the decrement
WaitDec2Forgets(w) ==
    /\ bpc[w] = "wt_dec2"
    /\ Goto(w, "wt_unlock")
    /\ UNCHANGED <<team, waiters, counter, lwrite, lread, notify, avail, ops,
                   bprimer, bprimed, blast, bread, net, owed, debt,
                   wrote, sigval>>

\* atomic.AddInt32(&b.waiters, -1)
WaitDec2(w) ==
    /\ bpc[w] = "wt_dec2"
    /\ waiters' = waiters - 1
    /\ net' = [net EXCEPT ![w] = @ + (waiters' - waiters)]
    /\ Goto(w, "wt_unlock")
    /\ UNCHANGED <<team, counter, lwrite, lread, notify, avail, ops,
                   bprimer, bprimed, blast, bread, owed, debt,
                   wrote, sigval>>

\* lock.Unlock: atomic.AddUint32(&l.read, math.MaxUint32)
Unlock(cur) == AddUint32(cur, MaxUint32)

\* b.lock.Unlock(); return
WaitUnlock(w) ==
    /\ bpc[w] = "wt_unlock"
    /\ lread' = Unlock(lread)
    /\ owed' = [owed EXCEPT ![w] = FALSE]
    /\ bprimer' = [bprimer EXCEPT ![w] = 0]
    /\ bprimed' = [bprimed EXCEPT ![w] = FALSE]
    /\ Goto(w, "w_try1")
    /\ UNCHANGED <<team, waiters, counter, lwrite, notify, avail, ops,
                   blast, bread, net, debt, wrote, sigval>>

\* b.cond.Wait(): the caller joins the notify list,
CondWaitAdd(w) ==
    /\ bpc[w] = "cw_add"
    /\ notify' = notify \cup {w}
    /\ Goto(w, "cw_unlock")
    /\ UNCHANGED <<team, waiters, counter, lwrite, lread, avail, ops,
                   bprimer, bprimed, blast, bread, net, owed, debt,
                   wrote, sigval>>

\* releases c.L (lock.Unlock),
CondWaitUnlock(w) ==
    /\ bpc[w] = "cw_unlock"
    /\ lread' = Unlock(lread)
    /\ Goto(w, "cw_park")
    /\ UNCHANGED <<team, waiters, counter, lwrite, notify, avail, ops,
                   bprimer, bprimed, blast, bread, net, owed, debt,
                   wrote, sigval>>

CondWaitWakeReturns(w) ==
    /\ bpc[w] = "cw_park"
    /\ w \notin notify
    /\ Goto(w, "w_try1")
    /\ UNCHANGED <<team, waiters, counter, lwrite, lread, notify, avail, ops,
                   bprimer, bprimed, blast, bread, net, owed, debt,
                   wrote, sigval>>
\* and sleeps until a Broadcast has taken it off the list; c.L.Lock() is a
\* no-op, and Wait's outer loop starts again
CondWaitWake(w) ==
    /\ bpc[w] = "cw_park"
    /\ w \notin notify
    /\ Goto(w, "wt_load")
    /\ UNCHANGED <<team, waiters, counter, lwrite, lread, notify, avail, ops,
                   bprimer, bprimed, blast, bread, net, owed, debt,
                   wrote, sigval>>

\* ---- the partner (BlockDVQ.Enqueue) ----

\* a successful operation of the partner, which then calls Signal
PartnerOp(s) ==
    /\ s \in Signallers \cap team /\ bpc[s] = "idle"
    /\ ops < MaxOps
    /\ ops' = ops + 1
    /\ avail' = avail + 1
    /\ owed' = [w \in BProcs |-> owed[w] \/ bpc[w] \in WaitPcs]
    /\ Goto(s, "sg_load")
    /\ UNCHANGED <<team, waiters, counter, lwrite, lread, notify,
                   bprimer, bprimed, blast, bread, net, debt, wrote, sigval>>

\* ---- Block.Signal ----

\* if atomic.LoadInt32(&b.waiters) == 0 { return }
SignalLoad(s) ==
    /\ bpc[s] = "sg_load"
    /\ Goto(s, IF waiters = 0 THEN "idle" ELSE "tl_add")
    /\ UNCHANGED <<team, waiters, counter, lwrite, lread, notify, avail, ops,
                   bprimer, bprimed, blast, bread, net, owed, debt,
                   wrote, sigval>>

\* a TryLock that lets every later caller wait as pending
TryLockSwitchManyPending(write) ==
    IF HasHighBit(write) THEN "tl_add"
    ELSE IF write = 1 THEN "tl_readadd"
    ELSE "tl_pend"

\* a TryLock without the pending case
TryLockSwitchNoPending(write) ==
    IF HasHighBit(write) THEN "tl_add"
    ELSE IF write = 1 THEN "tl_readadd"
    ELSE "idle"

\* where TryLock goes after write = atomic.AddUint32(&l.write, 1): round the
\* loop again while the lock is being unlocked, else first locker, pending
\* locker, or failure
TryLockSwitch(write) ==
    IF HasHighBit(write) THEN "tl_add"
    ELSE IF write = 1 THEN "tl_readadd"
    ELSE IF write = 2 THEN "tl_pend"
    ELSE "idle"

\* lock.TryLock: one turn of the loop, and the switch.  A TryLock that
\* returns false makes Signal return.  The count in l.write stays below the
\* high bit.
TryLockAdd(s) ==
    /\ bpc[s] = "tl_add"
    /\ ClearHighBit(lwrite) + 1 < highBit
    /\ lwrite' = AddUint32(lwrite, 1)
    /\ Goto(s, TryLockSwitch(lwrite'))
    /\ debt' = IF TryLockSwitch(lwrite') = "idle" THEN 1 ELSE debt
    /\ UNCHANGED <<team, waiters, counter, lread, notify, avail, ops,
                   bprimer, bprimed, blast, bread, net, owed, wrote, sigval>>

\* case 1: read := atomic.AddUint32(&l.read, highBit)
TryLockReadAdd(s) ==
    /\ bpc[s] = "tl_readadd"
    /\ lread' = AddUint32(lread, highBit)
    /\ Goto(s, IF lread' # highBit THEN "tl_readspin" ELSE "sg_inc")
    /\ UNCHANGED <<team, waiters, counter, lwrite, notify, avail, ops,
                   bprimer, bprimed, blast, bread, net, owed, debt,
                   wrote, sigval>>

\* for read != highBit { runtime.Gosched(); read = atomic.LoadUint32(&l.read) }
TryLockReadSpin(s) ==
    /\ bpc[s] = "tl_readspin"
    /\ lread = highBit
    /\ Goto(s, "sg_inc")
    /\ UNCHANGED <<team, waiters, counter, lwrite, lread, notify, avail, ops,
                   bprimer, bprimed, blast, bread, net, owed, debt,
                   wrote, sigval>>

\* a pending TryLock that does not wait for the high bit
TryLockPendingNoWait(s) ==
    /\ bpc[s] = "tl_pend"
    /\ Goto(s, "tl_pendstore")
    /\ UNCHANGED <<team, waiters, counter, lwrite, lread, notify, avail, ops,
                   bprimer, bprimed, blast, bread, net, owed, debt,
                   wrote, sigval>>

\* case 2: for write&highBit == 0 { runtime.Gosched(); write = load(&l.write) }
TryLockPending(s) ==
    /\ bpc[s] = "tl_pend"
    /\ HasHighBit(lwrite)
    /\ Goto(s, "tl_pendstore")
    /\ UNCHANGED <<team, waiters, counter, lwrite, lread, notify, avail, ops,
                   bprimer, bprimed, blast, bread, net, owed, debt,
                   wrote, sigval>>

\* atomic.StoreUint32(&l.write, 1); return true
TryLockPendingStore(s) ==
    /\ bpc[s] = "tl_pendstore"
    /\ lwrite' = 1
    /\ Goto(s, "sg_inc")
    /\ UNCHANGED <<team, waiters, counter, lread, notify, avail, ops,
                   bprimer, bprimed, blast, bread, net, owed, debt,
                   wrote, sigval>>

\* a Signal that leaves counter as it was
SignalIncSkips(s) ==
    /\ bpc[s] = "sg_inc"
    /\ wrote' = [wrote EXCEPT ![s] = counter]
    /\ debt' = IF debt = 1 THEN 2 ELSE debt
    /\ Goto(s, "sg_bcast")
    /\ UNCHANGED <<team, waiters, counter, lwrite, lread, notify, avail, ops,
                   bprimer, bprimed, blast, bread, net, owed, sigval>>

\* atomic.AddUintptr(&b.counter, 1)
SignalInc(s) ==
    /\ bpc[s] = "sg_inc"
    /\ counter' = Wrap(counter + 1)
    /\ wrote' = [wrote EXCEPT ![s] = counter']
    /\ debt' = IF debt = 1 THEN 2 ELSE debt
    /\ Goto(s, "sg_bcast")
    /\ UNCHANGED <<team, waiters, lwrite, lread, notify, avail, ops,
                   bprimer, bprimed, blast, bread, net, owed, sigval>>

\* a Signal that does not broadcast
SignalBroadcastLost(s) ==
    /\ bpc[s] = "sg_bcast"
    /\ debt' = IF debt = 2 THEN 0 ELSE debt
    /\ Goto(s, "wu_add")
    /\ UNCHANGED <<team, waiters, counter, lwrite, lread, notify, avail, ops,
                   bprimer, bprimed, blast, bread, net, owed, wrote, sigval>>

\* b.cond.Broadcast()
SignalBroadcast(s) ==
    /\ bpc[s] = "sg_bcast"
    /\ notify' = {}
    /\ debt' = IF debt = 2 THEN 0 ELSE debt
    /\ Goto(s, "wu_add")
    /\ UNCHANGED <<team, waiters, counter, lwrite, lread, avail, ops,
                   bprimer, bprimed, blast, bread, net, owed, wrote, sigval>>

\* ---- lock.WUnlock ----

\* a WUnlock that always resets the lock
WUnlockSwitchAlwaysReset(write) == "wu_read"

\* where WUnlock goes after write := atomic.AddUint32(&l.write, highBit)
WUnlockSwitch(write) == IF ClearHighBit(write) > 1 THEN "idle" ELSE "wu_read"

\* Signal has returned: what it wrote to counter is on record
SignalReturn(s) ==
    /\ sigval' = IF wrote[s] > sigval THEN wrote[s] ELSE sigval
    /\ wrote' = [wrote EXCEPT ![s] = 0]

WUnlockAdd(s) ==
    /\ bpc[s] = "wu_add"
    /\ lwrite' = AddUint32(lwrite, highBit)
    /\ Goto(s, WUnlockSwitch(lwrite'))
    /\ IF WUnlockSwitch(lwrite') = "idle"
       THEN SignalReturn(s)
       ELSE UNCHANGED <<wrote, sigval>>
    /\ UNCHANGED <<team, waiters, counter, lread, notify, avail, ops,
                   bprimer, bprimed, blast, bread, net, owed, debt>>

\* atomic.StoreUint32(&l.read, 0)
WUnlockRead(s) ==
    /\ bpc[s] = "wu_read"
    /\ lread' = 0
    /\ Goto(s, "wu_write")
    /\ UNCHANGED <<team, waiters, counter, lwrite, notify, avail, ops,
                   bprimer, bprimed, blast, bread, net, owed, debt,
                   wrote, sigval>>

\* atomic.StoreUint32(&l.write, 0)
WUnlockWrite(s) ==
    /\ bpc[s] = "wu_write"
    /\ lwrite' = 0
    /\ Goto(s, "idle")
    /\ SignalReturn(s)
    /\ UNCHANGED <<team, waiters, counter, lread, notify, avail, ops,
                   bprimer, bprimed, blast, bread, net, owed, debt>>

\* every step of a goroutine that is inside a call or inside its loop
BRun(p) ==
    \/ WaiterTry1(p)
    \/ WaiterTry2(p)
    \/ PrimeLoad1(p)
    \/ PrimeLoad2(p)
    \/ PrimeWrite(p)
    \/ PrimeAdd(p)
    \/ Cancel(p)
    \/ WaiterReturn(p)
    \/ WaitLoad(p)
    \/ WaitDec1(p)
    \/ TryRLockLoad(p)
    \/ TryRLockCAS(p)
    \/ WaitCheck(p)
    \/ WaitDec2(p)
    \/ WaitUnlock(p)
    \/ CondWaitAdd(p)
    \/ CondWaitUnlock(p)
    \/ CondWaitWake(p)
    \/ SignalLoad(p)
    \/ TryLockAdd(p)
    \/ TryLockReadAdd(p)
    \/ TryLockReadSpin(p)
    \/ TryLockPending(p)
    \/ TryLockPendingStore(p)
    \/ SignalInc(p)
    \/ SignalBroadcast(p)
    \/ WUnlockAdd(p)
    \/ WUnlockRead(p)
    \/ WUnlockWrite(p)

BNext == \E p \in BProcs : WaiterBegin(p) \/ PartnerOp(p) \/ BRun(p)

\* the queue plays no part in the block's runs
QFixed == variant = "mpmc" /\ New(2) /\ QInit

\* no call of a primitive on its own
NoCall == [none |-> TRUE]
PFixed ==
    /\ pin = NoCall
    /\ pout = NoCall
    /\ pmem = 0
    /\ pcas = "idle"
    /\ pquiet = TRUE
    /\ quad = NoCall

\* the Go scheduler runs every goroutine that can run; whether a caller
\* starts another operation is up to the caller
BFair == \A p \in BProcs : WF_vars(BRun(p))

\* the futexes play no part in the runs of the Vyukov queues and the block
XRest ==
    /\ FInit
    /\ \A f \in Futexes : futex[f].origAddr = 1
    /\ TInit
    /\ YInit
    /\ follyMask = 0

XFixed == XRest /\ PFixed

\* a new block over a queue at rest
BlockInit == QFixed /\ BInit /\ XFixed

SpecBlock == BlockInit /\ [][BNext]_vars /\ BFair

\* the block used by one waiter and every signaller
LockInit == BlockInit /\ team = LockTeam

SpecLock == LockInit /\ [][BNext]_vars /\ BFair

\* the runs in which wake-ups are followed to the end: one waiter with every
\* signaller, and every waiter with one signaller
WakeTeams == {LockTeam, Waiters \cup {NumWaiters + 1}}

WakeInit == QFixed /\ team \in WakeTeams /\ BAtRest /\ XFixed

SpecWake == WakeInit /\ [][BNext]_vars /\ BFair

\* the block plays no part in the queue's runs
BFixed == team = LockTeam /\ BInit

\* a new queue beside a block at rest
QueueInit == QInit /\ BFixed /\ XFixed

\* new futexes beside a queue and a block at rest
FutexInit == QFixed /\ BFixed /\ FInit /\ TInit /\ YInit /\ follyMask = 0 /\ PFixed

\* one broker, at turn 0, beside a queue and a block at rest
TurnInit == QFixed /\ BFixed /\ XFixed

SpecTurn == TurnInit /\ [][TurnNext]_vars /\ TurnFair

\* a new folly queue, with new futexes, beside a Vyukov queue and a block
\* at rest
FollyInit == QFixed /\ BFixed /\ FInit /\ TInit /\ YInit /\ PFixed

SpecFolly == FollyInit /\ [][FollyNext]_vars /\ FollyFair

\* a new folly queue of one cell
CrowdInit == QFixed /\ BFixed /\ XFixed

SpecCrowd == CrowdInit /\ [][CrowdNext]_vars /\ CrowdFair

\* the folly queue under all four operations
TryInit == QFixed /\ BFixed /\ FInit /\ TInit /\ YInit /\ PFixed
SpecTry == TryInit /\ [][TryNext]_vars /\ TryFair

\* ---- New and Next2 for every request ----
Requests == 0..(WordMod - 1)

\* New(size) of any of the four packages, for any size
NewInit ==
    /\ variant \in Variants
    /\ \E req \in Requests : New(req) /\ pin = [v |-> req]
    /\ QAtRest
    /\ pout = NoCall
    /\ pmem = 0
    /\ pcas = "idle"
    /\ pquiet = TRUE
    /\ quad = NoCall
    /\ BFixed
    /\ XRest

\* a call of primitive.Next2 with the size that New was given
Next2Call ==
    /\ pout = NoCall
    /\ pout' = [v |-> Next2(pin.v)]
    /\ UNCHANGED <<pin, pmem, pcas, pquiet, quad, qvars, bvars, fvars, tvars, yvars>>

NewNext == Next2Call

SpecNew == NewInit /\ [][NewNext]_vars

\* ---- encodeTurn, getTurnNumber and getTurnWait for every word ----
Words == 0..(WordMod - 1)

\* a turn number and a count about to be packed
EncodeInit ==
    /\ \E turnNumber, turnWait \in Words :
          pin = [turnNumber |-> turnNumber, turnWait |-> turnWait]
    /\ pout = NoCall
    /\ pmem = 0
    /\ pcas = "idle"
    /\ pquiet = TRUE
    /\ quad = NoCall
    /\ QFixed
    /\ BFixed
    /\ XRest

\* state := encodeTurn(turnNumber, turnWait), then getTurnNumber(state) and
\* getTurnWait(state)
EncodeCall ==
    /\ pout = NoCall
    /\ LET state == encodeTurn(pin.turnNumber, pin.turnWait)
       IN  pout' = [state |-> state, turnNumber |-> getTurnNumber(state),
                    turnWait |-> getTurnWait(state)]
    /\ UNCHANGED <<pin, pmem, pcas, pquiet, quad, qvars, bvars, fvars, tvars, yvars>>

EncodeNext == EncodeCall

SpecEncode == EncodeInit /\ [][EncodeNext]_vars

\* ---- the flag Queue.enqueue and Queue.dequeue hand to the cell ----

\* a ticket of any magnitude
SpinInit ==
    /\ \E ticket \in Words : pin = [ticket |-> ticket]
    /\ pout = NoCall
    /\ pmem = 0
    /\ pcas = "idle"
    /\ pquiet = TRUE
    /\ quad = NoCall
    /\ QFixed
    /\ BFixed
    /\ XRest

\* maybeUpdateSpin := ticket>>updateSpinFreqShift == 0
SpinCall ==
    /\ pout = NoCall
    /\ pout' = [maybeUpdateSpin |-> MaybeUpdateSpin(pin.ticket)]
    /\ UNCHANGED <<pin, pmem, pcas, pquiet, quad, qvars, bvars, fvars, tvars, yvars>>

SpinNext == SpinCall

SpecSpin == SpinInit /\ [][SpinNext]_vars

\* ---- CompareAndSwapUintptr on its own, in both builds ----
CasWords == 0..MaxWord
Builds == {"amd64", "race"}

\* a word at addr and a caller about to call CompareAndSwapUintptr(addr,
\* old, new) of the amd64 build or of the race build
CasInit ==
    /\ pmem \in CasWords
    /\ \E old, new \in CasWords, build \in Builds :
          pin = [old |-> old, new |-> new, build |-> build, was |-> pmem]
    /\ pout = NoCall
    /\ pcas = "idle"
    /\ pquiet = TRUE
    /\ quad = NoCall
    /\ QFixed
    /\ BFixed
    /\ XRest

CasFrame == UNCHANGED <<quad, qvars, bvars, fvars, tvars, yvars>>

\* the assembly: LOCK CMPXCHGQ CX, 0(BP); fresh is CX (new) if the exchange
\* was made and AX, which CMPXCHGQ loaded with the word at addr, if not
CompareAndSwapUint64 ==
    /\ pcas = "idle"
    /\ pin.build = "amd64"
    /\ LET r == CompareAndSwapUintptr(pmem, pin.old, pin.new)
       IN  /\ pmem' = r.mem
           /\ pout' = [fresh |-> r.fresh, swapped |-> r.swapped]
    /\ pin' = [pin EXCEPT !.was = pmem]
    /\ pcas' = "done"
    /\ UNCHANGED pquiet
    /\ CasFrame

\* the race build: swapped = atomic.CompareAndSwapUintptr(addr, old, new);
\* if swapped { fresh = new }
RaceCompareAndSwap ==
    /\ pcas = "idle"
    /\ pin.build = "race"
    /\ pin' = [pin EXCEPT !.was = pmem]
    /\ IF pmem = pin.old
       THEN /\ pmem' = pin.new
            /\ pout' = [fresh |-> pin.new, swapped |-> TRUE]
            /\ pcas' = "done"
       ELSE /\ pcas' = "race_load"
            /\ UNCHANGED <<pmem, pout>>
    /\ UNCHANGED pquiet
    /\ CasFrame

\* the race build: else { fresh = atomic.LoadUintptr(addr) }
RaceLoad ==
    /\ pcas = "race_load"
    /\ pout' = [fresh |-> pmem, swapped |-> FALSE]
    /\ pcas' = "done"
    /\ UNCHANGED <<pin, pmem, pquiet>>
    /\ CasFrame

\* another goroutine stores to addr between the two atomic operations of
\* the race build
OtherStore ==
    /\ pcas = "race_load"
    /\ pquiet
    /\ \E v \in CasWords : pmem' = v
    /\ pquiet' = FALSE
    /\ UNCHANGED <<pin, pout, pcas>>
    /\ CasFrame

CasNext ==
    \/ CompareAndSwapUint64
    \/ RaceCompareAndSwap
    \/ RaceLoad
    \/ OtherStore

SpecCAS == CasInit /\ [][CasNext]_vars

\* ---- the Vyukov queues when the positions pass the largest word ----
\* the position the run starts at: MaxItems enqueues take enqPos past the
\* largest word
WrapStart == WordMod - (MaxItems - 1)

\* the queue after WrapStart payloads have gone through it, one TryEnqueue
\* and one TryDequeue at a time: it is empty, both positions are WrapStart,
\* and cell i has the seq that the TryDequeue of the last position of cell i
\* below WrapStart stored, pos + size, which is the first position of cell i
\* at or after WrapStart
Used(req) ==
    LET size2 == Next2(req)
    IN  /\ mask = Wrap(size2 - 1)
        /\ cells = [i \in 0..(size2 - 1) |->
                      [seq |-> Wrap(WrapStart + ((i + WordMod - WrapStart) % size2)),
                       ptr |-> Null]]
        /\ enqPos = WrapStart
        /\ deqPos = WrapStart

WrapInit ==
    /\ variant \in Variants
    /\ \E req \in 1..MaxReq : Used(req)
    /\ QAtRest
    /\ BFixed
    /\ XFixed

SpecWrap == WrapInit /\ [][QNext]_vars

\* ---- the four Vyukov queues given the same calls, one call at a time ----

\* New(size) as a value
NewQueue(req) ==
    LET size2 == Next2(req)
    IN  [mask |-> Wrap(size2 - 1),
         cells |-> [i \in 0..(size2 - 1) |-> [seq |-> Wrap((i + 1) - 1), ptr |-> Null]],
         enqPos |-> 0,
         deqPos |-> 0]

\* what a call that runs alone does to the queue q and returns; a call
\* whose loop cannot end, nobody else being there to change what it
\* reloads, hangs
Hangs(q) == [q |-> q, hangs |-> TRUE, ok |-> FALSE, ptr |-> Null]
Returns(q, ok, ptr) == [q |-> q, hangs |-> FALSE, ok |-> ok, ptr |-> ptr]

\* TryEnqueue of mpmcdvq and mpscdvq
MPTryEnqueue(q, ptr) ==
    LET pos == q.enqPos
        c == BitAnd(pos, q.mask)
        cmp == ToInt(Wrap(q.cells[c].seq - pos))
        r == CompareAndSwapUintptr(q.enqPos, pos, Wrap(pos + 1))
    IN  IF cmp = 0
        THEN Returns([q EXCEPT !.enqPos = r.mem,
                               !.cells[c] = [seq |-> r.fresh, ptr |-> ptr]],
                     TRUE, Null)
        ELSE IF cmp < 0 THEN Returns(q, FALSE, Null) ELSE Hangs(q)

\* TryEnqueue of spscdvq and spmcdvq
SPTryEnqueue(q, ptr) ==
    LET c == BitAnd(q.enqPos, q.mask)
        next == Wrap(q.enqPos + 1)
    IN  IF q.cells[c].seq < q.enqPos
        THEN Returns(q, FALSE, Null)
        ELSE Returns([q EXCEPT !.enqPos = next,
                               !.cells[c] = [seq |-> next, ptr |-> ptr]],
                     TRUE, Null)

\* TryDequeue of mpmcdvq and spmcdvq
MCTryDequeue(q) ==
    LET pos == q.deqPos
        c == BitAnd(pos, q.mask)
        cmp == ToInt(Wrap(q.cells[c].seq - Wrap(pos + 1)))
        r == CompareAndSwapUintptr(q.deqPos, pos, Wrap(pos + 1))
    IN  IF cmp = 0
        THEN Returns([q EXCEPT !.deqPos = r.mem,
                               !.cells[c] = [seq |-> Wrap(r.fresh + q.mask),
                                             ptr |-> Null]],
                     TRUE, q.cells[c].ptr)
        ELSE IF cmp < 0 THEN Returns(q, FALSE, Null) ELSE Hangs(q)

\* TryDequeue of spscdvq and mpscdvq
SCTryDequeue(q) ==
    LET c == BitAnd(q.deqPos, q.mask)
        next == Wrap(q.deqPos + 1)
    IN  IF q.cells[c].seq < next
        THEN Returns(q, FALSE, Null)
        ELSE Returns([q EXCEPT !.deqPos = next,
                               !.cells[c] = [seq |-> Wrap(next + q.mask),
                                             ptr |-> Null]],
                     TRUE, q.cells[c].ptr)

\* four new queues of the same size
SeqInit ==
    /\ \E req \in 1..MaxReq : quad = [v \in Variants |-> NewQueue(req)]
    /\ pin = [calls |-> 0]
    /\ pout = [v \in Variants |-> Returns(NoCall, FALSE, Null)]
    /\ pmem = 0
    /\ pcas = "idle"
    /\ pquiet = TRUE
    /\ QFixed
    /\ BFixed
    /\ XRest

SeqFrame == UNCHANGED <<pmem, pcas, pquiet, qvars, bvars, fvars, tvars, yvars>>

\* a call can follow when the one before has returned in every package
SeqReady ==
    /\ pin.calls < MaxSeqCalls
    /\ \A v \in Variants : ~pout[v].hangs

\* the same TryEnqueue on each of the four queues
SeqTryEnqueue ==
    /\ SeqReady
    /\ pin' = [calls |-> pin.calls + 1]
    /\ pout' = [v \in Variants |->
                   IF v \in {"mpmc", "mpsc"}
                   THEN MPTryEnqueue(quad[v], pin.calls + 1)
                   ELSE SPTryEnqueue(quad[v], pin.calls + 1)]
    /\ quad' = [v \in Variants |-> pout'[v].q]
    /\ SeqFrame

\* the same TryDequeue on each of the four queues
SeqTryDequeue ==
    /\ SeqReady
    /\ pin' = [calls |-> pin.calls + 1]
    /\ pout' = [v \in Variants |->
                   IF v \in {"mpmc", "spmc"}
                   THEN MCTryDequeue(quad[v])
                   ELSE SCTryDequeue(quad[v])]
    /\ quad' = [v \in Variants |-> pout'[v].q]
    /\ SeqFrame

SeqNext == SeqTryEnqueue \/ SeqTryDequeue

SpecSeq == SeqInit /\ [][SeqNext]_vars

SpecFutex == FutexInit /\ [][FutexNext]_vars /\ FutexFair

SpecQueue == QueueInit /\ [][QNext]_vars

(***************************************************************************)
(* Properties of the queue family.                                         *)
(***************************************************************************)
Range(s) == {s[i] : i \in 1..Len(s)}

NoDuplicates(s) == \A i, j \in 1..Len(s) : i # j => s[i] # s[j]

\* a TryDequeue that started now, alone, would report the queue empty
ReportsEmpty ==
    LET seq == cells[BitAnd(deqPos, mask)].seq
    IN  IF MultiConsumer
        THEN ToInt(Wrap(seq - Wrap(deqPos + 1))) < 0
        ELSE seq < Wrap(deqPos + 1)

\* no call is in flight and the consumers have taken all they can get
Drained == (\A p \in QProcs : qpc[p] = "idle") /\ ReportsEmpty

\* payloads accepted and not yet returned
Held == Len(accepted) - Len(returned)

\* C1: in mpmcdvq, for every capacity New can create, no successful
\* TryDequeue returns a payload that was not accepted or that was already
\* returned, and once the queue is drained every accepted payload has been
\* returned (no loss, no duplication, no invented value).
C1_NoLossNoDuplication ==
    variant = "mpmc" =>
        /\ NoDuplicates(returned)
        /\ Range(returned) \subseteq Range(accepted)
        /\ (Drained => Range(returned) = Range(accepted))

\* C2: with one producer (spscdvq, spmcdvq) the dequeue that claims position
\* p returns the payload of the (p+1)-th accepted enqueue, and with one
\* consumer the payloads are returned in the order they were accepted.
C2_FIFO ==
    variant \in {"spsc", "spmc"} =>
        /\ \A c \in claims :
               /\ c[1] + 1 <= Len(accepted)
               /\ accepted[c[1] + 1] = c[2]
        /\ (variant = "spsc" =>
               /\ Len(returned) <= Len(accepted)
               /\ returned = SubSeq(accepted, 1, Len(returned)))

\* C3: in every reachable state of every variant and every capacity,
\* enqPos - deqPos lies in [0, size].
C3_BoundedOccupancy == Wrap(enqPos - deqPos) \in 0..size

ReturnsFalse(p) ==
    \/ qpc[p] = "e_seq" /\ qpc'[p] = "idle"
    \/ qpc[p] = "d_seq" /\ qpc'[p] = "idle"

\* the steps of a call that has not claimed a position
Unclaimed(p) ==
    /\ qpc[p] # qpc'[p]
    /\ \/ ReturnsFalse(p)
       \/ qpc'[p] \in {"e_seq", "e_reload", "e_cas", "e_inc",
                       "d_seq", "d_reload", "d_cas", "d_inc"}

C4_Step ==
    \A p \in QProcs :
        /\ (qsolo[p] /\ qpc[p] = "e_seq" /\ qpc'[p] = "idle") => Held = size
        /\ (qsolo[p] /\ qpc[p] = "e_store" /\ qpc'[p] = "idle") => Held < size
        /\ (qsolo[p] /\ qpc[p] = "d_seq" /\ qpc'[p] = "idle") => Held = 0
        /\ (qsolo[p] /\ qpc[p] = "d_store" /\ qpc'[p] = "idle") => Held > 0
        /\ Unclaimed(p) => UNCHANGED <<enqPos, deqPos, cells>>

\* C4: with no other operation in flight TryEnqueue returns false exactly
\* when the queue holds size payloads and TryDequeue returns false exactly
\* when it holds none; a call that returns false changes neither enqPos nor
\* deqPos nor any cell.
C4_FullEmpty == [][C4_Step]_vars

(***************************************************************************)
(* Properties of the block and its lock.                                   *)
(***************************************************************************)
\* between a TryLock that returned true and the call of WUnlock
Holding(p) == bpc[p] \in {"sg_inc", "sg_bcast", "wu_add"}

\* between a TryLock that returned true and the return of WUnlock
InWriteSection(p) == Holding(p) \/ bpc[p] \in {"wu_read", "wu_write"}

\* a TryLock that drew 2 and waits for the holder to unlock
Pending(p) == bpc[p] = "tl_pend"

\* C5: no wakeup is lost: a waiter that has primed, failed its second try
\* and called Wait, and whose partner succeeded after that second try,
\* returns from Wait (under fair scheduling): owed[w] leads to ~owed[w],
\* which is to say that ~owed[w] holds again and again.
C5_NoMissedWakeup == \A w \in Waiters : []<>~owed[w]

\* a waiter asleep on the condition although a partner has succeeded
C5_Witness == \E w \in Waiters : owed[w] /\ bpc[w] = "cw_park" /\ w \in notify

\* C6: at most one caller is between a TryLock that returned true and its
\* matching WUnlock.
C6_WriterExclusion == Cardinality({p \in BProcs : InWriteSection(p)}) <= 1

\* a holder, a pending writer and a third caller inside TryLock
C6_Witness ==
    \E h, q, r \in BProcs :
        /\ Holding(h)
        /\ Pending(q)
        /\ bpc[r] = "tl_add"

C7_Step ==
    \A s \in BProcs :
        ((\E h \in BProcs : Holding(h)) /\ (\E q \in BProcs : Pending(q))
          /\ TryLockAdd(s))
        => bpc'[s] = "idle"

\* C7: while one writer holds the lock and a second waits as pending, every
\* further TryLock returns false at once.
C7_OnePendingWriter == [][C7_Step]_vars

\* a third Signal has given up while one holds the lock and one is pending
C7_Witness ==
    /\ debt = 1 /\ lwrite = 3
    /\ \E h, q \in BProcs : Holding(h) /\ Pending(q)

C8_Step ==
    \A s \in BProcs :
        /\ (WUnlockAdd(s) /\ (\E q \in BProcs : Pending(q)))
               => /\ bpc'[s] = "idle"
                  /\ lread' = lread
                  /\ HasHighBit(lwrite') /\ ClearHighBit(lwrite') = lwrite
        /\ (WUnlockAdd(s) /\ ~(\E q \in BProcs : Pending(q)))
               => bpc'[s] = "wu_read"
        /\ WUnlockRead(s) => (lread' = 0 /\ HasHighBit(lwrite'))
        /\ WUnlockWrite(s) => (lwrite' = 0 /\ ~HasHighBit(lread'))
        /\ TryLockPendingStore(s) => (lwrite' = 1 /\ Holding(s)')
        /\ (Pending(s) /\ ~Pending(s)') => bpc'[s] = "tl_pendstore"
        /\ (bpc[s] = "tl_pendstore" /\ bpc'[s] # "tl_pendstore") =>
              (Holding(s)' /\ lwrite' = 1)

\* C8: a holder that unlocks while a writer is pending leaves the lock
\* un-reset, and the pending writer's TryLock then returns true with
\* l.write = 1; with no writer pending WUnlock resets read, then write, to 0.
\* A pending writer leaves its wait only for the store of 1, and the store
\* only as the holder with l.write = 1; and again and again no writer is
\* pending or about to store: so every pending writer comes to hold the lock.
C8_HandOff ==
    /\ [][C8_Step]_vars
    /\ []<>(\A q \in Signallers : bpc[q] \notin {"tl_pend", "tl_pendstore"})

\* the holder has left and the pending writer has seen the high bit
C8_Witness ==
    \E q \in BProcs :
        /\ bpc[q] = "tl_pendstore"
        /\ \A p \in BProcs : ~InWriteSection(p)
        /\ HasHighBit(lwrite) /\ lread = highBit

\* C9: whenever a Signal gives up because TryLock failed, another Signal
\* increments counter and broadcasts after that TryLock attempt.
C9_CollapsedSignals == (debt # 0) ~> (debt = 0)

\* after a Signal gave up, another one has incremented counter
C9_Witness == debt = 2 /\ \E s \in BProcs : bpc[s] = "sg_bcast"

InPrimeOrCancel(p) ==
    PrimeLoad1(p) \/ PrimeLoad2(p) \/ PrimeWrite(p) \/ PrimeAdd(p) \/ Cancel(p)

C10_Step ==
    \A w \in BProcs :
        /\ Cancel(w) => net'[w] = 0
        /\ InPrimeOrCancel(w) => UNCHANGED <<counter, lwrite, lread>>

\* C10: a Prime that returns primed = true followed by Cancel adds nothing
\* to waiters, and neither call changes counter or the lock.
C10_PrimeCancel == [][C10_Step]_vars

\* a caller has primed and cancelled
C10_Witness == \E w \in Waiters : bpc[w] = "w_cancelled" /\ net[w] = 0

\* a caller whose Prime has added it to waiters and whose Cancel or Wait has
\* not yet taken it off
Registered(w) ==
    \/ bpc[w] = "w_try2" /\ bprimed[w]
    \/ bpc[w] = "w_cancel"
    \/ bpc[w] \in WaitPcs \ {"wt_unlock"}

C11_Step ==
    \A w \in BProcs :
        (bpc[w] \in WaitPcs /\ bpc'[w] \notin WaitPcs)
            => (net'[w] = 0 /\ waiters' = waiters - net[w] /\ ~Registered(w)')

\* C11: waiters is the number of callers primed by Prime that have neither
\* cancelled nor been taken off by Wait; it is never negative, it is 0 when
\* no such caller is left, and a Wait that returns has decremented it once.
C11_WaitersCount ==
    /\ [](/\ waiters = Cardinality({w \in BProcs : Registered(w)})
          /\ waiters >= 0
          /\ (\A w \in BProcs : bpc[w] = "idle") => waiters = 0
          /\ \A w \in BProcs : net[w] = IF Registered(w) THEN 1 ELSE 0)
    /\ [][C11_Step]_vars

\* two callers are counted: one asleep in Wait, one about to cancel
C11_Witness ==
    /\ waiters = 2
    /\ \E w1, w2 \in Waiters : bpc[w1] = "cw_park" /\ bpc[w2] = "w_cancel"

C12_Step ==
    /\ counter' >= counter
    /\ \A s \in BProcs :
        /\ SignalInc(s) => counter' = counter + 1
        /\ (PrimeLoad1(s) \/ PrimeLoad2(s)) => bprimer'[s] >= sigval

\* C12: counter never decreases, a Signal that holds the write lock adds
\* exactly one to it, and a Prime that starts after such a Signal has
\* returned reports a primer no smaller than the value that Signal wrote.
C12_CounterMonotonic == [][C12_Step]_vars

\* a Prime called with last = 1 after the Signal that wrote 1 has returned
C12_Witness ==
    /\ sigval = 1
    /\ \E w \in Waiters : bpc[w] = "p_load2" /\ bprimer[w] = 1

(***************************************************************************)
(* Properties of the futex.                                                *)
(***************************************************************************)
\* the node of p's Wait call is in a bucket's list
Linked(p) ==
    \E b \in Buckets : \E i \in 1..Len(buckets[b].nodes) : buckets[b].nodes[i] = p

\* C13: the futex loses no wakeup: a Wait in progress that expects the value
\* State held before the waker's store, when the waker then calls
\* Wake(all, m) on its futex with an overlapping mask, returns (under fair
\* scheduling): owed leads to not owed, which is to say that the Wait is
\* not owed a wakeup again and again.
C13_FutexNoLostWakeup == \A p \in Sleepers : []<>~fghost[p].owed

\* a waiter asleep on its node's condition while a wakeup is owed to it
C13_Witness ==
    \E p \in Threads : fghost[p].owed /\ fcall[p].pc = "wait_park" /\ node[p].parked

C14_Step ==
    \A p \in Threads :
        FutexWaitLoad(p) =>
            IF futex[fcall[p].f].State # fcall[p].expectState
            THEN /\ fcall'[p].pc = "idle" /\ fcall'[p].result = ValueChanged
                 /\ ~Linked(p)' /\ ~node'[p].parked
                 /\ \A b \in Buckets : buckets'[b].nodes = buckets[b].nodes
            ELSE fcall'[p].pc = "wait_link"

\* C14: Wait returns ValueChanged, with its node never linked and without
\* parking, when State differs from expectState at its load under the bucket
\* lock; it goes on to link and park only if they were equal.
C14_ValueChanged ==
    /\ [][C14_Step]_vars
    /\ [](\A p \in Threads :
            /\ Linked(p) => fcall[p].pc \in {"wait_nlock", "wait_test", "wait_park"}
            /\ node[p].parked => fcall[p].pc = "wait_park")

\* one Wait has returned ValueChanged while another sleeps
C14_Witness ==
    \E p, q \in Threads :
        /\ fcall[p].pc = "idle" /\ fcall[p].result = ValueChanged
        /\ fcall[q].pc = "wait_park"

\* a goroutine inside Wake
InWake(p) == fcall[p].pc \in {"wake_lock", "wake_scan", "wake_nlock", "wake_signal"}

C15_Step ==
    \A p \in Threads :
        /\ FutexWakeSignal(p) =>
              /\ BitAnd(node[fcall[p].cur].waitMask, fcall[p].waitMask) # 0
              /\ ~node[fcall[p].cur].signalled
        /\ (FutexWakeScan(p) /\ fcall'[p].pc = "idle") =>
              /\ fcall'[p].result = Cardinality(fghost[p].hit)
              /\ fcall'[p].result <= fcall[p].count
        /\ (InWake(p) /\ fcall'[p] # fcall[p]) =>
              \A n \in Threads :
                  (Linked(n) /\ BitAnd(node[n].waitMask, fcall[p].waitMask) = 0)
                      => (Linked(n)' /\ node'[n] = node[n])

\* C15: Wake(count, mask) signals at most count waiters, each with a stored
\* mask that overlaps mask, and returns the number it signalled; a waiter
\* whose mask does not overlap stays linked and parked.
C15_WakeMask ==
    /\ [][C15_Step]_vars
    /\ [](\A p \in Threads :
            InWake(p) =>
                /\ fcall[p].numAwoken <= fcall[p].count
                /\ fcall[p].numAwoken =
                      Cardinality(fghost[p].hit) + (IF fcall[p].cur # 0 THEN 1 ELSE 0))

\* Wake(1, m) has signalled one of two overlapping waiters, or Wake has
\* passed over a waiter whose mask does not overlap: a waiter is still
\* linked and asleep after Wake returned 1
C15_Witness ==
    \E p, q \in Threads :
        /\ fcall[p].pc = "idle" /\ fcall[p].result = 1 /\ fghost[p].hit # {}
        /\ fcall[q].pc = "wait_park" /\ node[q].parked /\ Linked(q)

(***************************************************************************)
(* Properties of the turn broker.                                          *)
(***************************************************************************)
\* the turn number the broker of futex f is at
CurrentTurn(f) == getTurnNumber(futex[f].State)

\* inside waitFor
InWaitFor(p) ==
    tcall[p].pc \in {"wf_begin", "wf_load", "wf_spin", "wf_cas", "wf_wait",
                     "wf_inwait", "wf_exit"}

\* C16: waitFor(k) returns only while the broker's current turn number is k,
\* hence (for k > 0) never before completeTurn(k-1) has performed its
\* compare-and-swap, whatever wake-ups the futex delivers: from the moment
\* the loop is left until the caller goes on, the broker is at turn k.
C16_WaitForTurn ==
    \A p \in Threads :
        tcall[p].pc \in {"wf_exit", "wf_ret"} =>
            /\ CurrentTurn(tcall[p].f) = tcall[p].turn
            /\ tcall[p].turn = 0 \/ (tcall[p].turn - 1) \in tdone[tcall[p].f]

\* a waitFor that was parked and woken has returned at its turn
C16_Witness ==
    \E p \in Pickers :
        /\ tcall[p].pc = "wf_ret"
        /\ tcall[p].turn = 2
        /\ fcall[p].result = Awoken

\* C17: every waitFor(k) eventually returns when the turns before k are
\* completed, whether it spun or parked, and also when k is 2^turnShift or
\* more turns ahead (the wait count saturates and the channels of k and
\* k + 2^turnShift collide).
C17_TurnLiveness ==
    \A p \in Pickers \cup Completers :
        (InWaitFor(p) /\ ~tghost[p].past) ~> (tcall[p].pc = "wf_ret")

\* C18: waitFor for a turn the broker has passed panics: it neither spins
\* nor parks, and it leaves the broker, the futex and the spin cutoff as
\* they are.
C18_Step ==
    \A p \in Threads :
        (tghost[p].past /\ tcall'[p] # tcall[p]) =>
            /\ tcall'[p].pc \in {"wf_load", "panicked"}
            /\ UNCHANGED <<futex, buckets, node, fcall, spinCutoff, tdone>>

C18_PastTurnPanics ==
    /\ [](\A p \in Threads :
            tghost[p].past => tcall[p].pc \in {"wf_begin", "wf_load", "panicked"})
    /\ [][C18_Step]_vars
    /\ \A p \in Pickers : tghost[p].past ~> (tcall[p].pc = "panicked")

\* a call for a completed turn has panicked while the broker had waiters
C18_Witness ==
    \E p \in Pickers :
        /\ tghost[p].past
        /\ tcall[p].pc = "panicked"
        /\ CurrentTurn(SharedBroker) > 2

(***************************************************************************)
(* Properties of the folly queue.                                          *)
(***************************************************************************)
\* C19: with blocking Enqueue and Dequeue only, the Dequeue that holds pop
\* ticket k returns the payload of the Enqueue that holds push ticket k: what
\* a Dequeue has read and what it has returned is the payload pushed with its
\* ticket, no payload is returned twice, and when every call has returned
\* every payload whose ticket a Dequeue holds has been returned.
C19_TicketMatch ==
    /\ \A e \in popped : e \in pushed
    /\ \A p \in Threads :
          ycall[p].pc = "deq_complete" => <<ycall[p].ticket, ycall[p].ptr>> \in pushed
    /\ \A e1, e2 \in popped : e1[2] = e2[2] => e1 = e2
    /\ (\A p \in Threads : ycall[p].pc = "idle") =>
          \A e \in pushed : e[1] < popTicket => e \in popped

\* two payloads have gone through a queue of one cell
C19_Witness ==
    /\ follyMask = 0
    /\ Cardinality(popped) = 2
    /\ \A p \in Threads : ycall[p].pc = "idle"

\* the turn of the Dequeue that empties the cell before the Enqueue with
\* this ticket may fill it
DequeueTurnBefore(ticket) == 2 * TurnOf(ticket) - 1

\* an Enqueue on a cell that has been filled before
EnqueueOnFull(p) ==
    /\ ycall[p].pc \in {"enq_wait", "enq_complete"}
    /\ TurnOf(ycall[p].ticket) > 0

\* the Dequeue before it has completed its turn
DequeueTurnDone(p) ==
    DequeueTurnBefore(ycall[p].ticket) \in tdone[BrokerOf(CellOf(ycall[p].ticket))]

\* C20: a blocking Enqueue on a full queue does not return (nor store its
\* payload) before a Dequeue has completed the dequeue turn of the cell its
\* ticket maps to, and once that turn is completed it eventually returns,
\* whether it spun or parked.
C20_EnqueueBlocks ==
    /\ [](\A p \in Threads :
            (/\ EnqueueOnFull(p)
             /\ \/ ycall[p].pc = "enq_complete"
                \/ tcall[p].pc \in {"wf_exit", "wf_ret"}) => DequeueTurnDone(p))
    /\ \A p \in Threads :
          (EnqueueOnFull(p) /\ DequeueTurnDone(p)) ~> (ycall[p].pc = "idle")


\* ---- the Try operations of the folly queue ----

\* inside a Try call with a ticket in hand
TryHolds(p) ==
    /\ ycall[p].try
    /\ ycall[p].pc \in {"enq_wait", "enq_complete", "deq_wait", "deq_complete"}

\* C21: a TryEnqueue or TryDequeue that has obtained a ticket works on the
\* very ticket its CompareAndSwap claimed, and its waitFor neither spins for
\* the turn nor registers as a waiter nor parks in Wait: the cell's broker is
\* already at the turn of the ticket.
C21_TryNeverWaits ==
    \A p \in Threads :
        TryHolds(p) =>
            /\ ycall[p].ticket = ycall[p].claimed
            /\ tcall[p].pc \notin {"wf_spin", "wf_cas", "wf_wait", "wf_inwait"}


\* the capacity of the folly queue: size2, the number of its cells
Capacity == follyMask + 1

\* the TryEnqueue calls among the calls that have returned
TryEnqueues == {i \in 1..Len(tlog) : tlog[i].kind = "TryEnqueue"}

\* every TryEnqueue that has returned did so before every TryDequeue
EnqueuesFirst ==
    \A i, j \in 1..Len(tlog) :
        (tlog[i].kind = "TryEnqueue" /\ tlog[j].kind = "TryDequeue") => i < j

\* C22: on a new folly queue used by Try calls only, one at a time, first
\* TryEnqueue calls and then TryDequeue calls: the first Capacity TryEnqueue
\* calls return true and every further one false; the TryDequeue calls then
\* return the accepted payloads in the order of their enqueues, and false
\* once all of them are returned.
C22_TrySequential ==
    (ysolo /\ EnqueuesFirst) =>
        \A i \in 1..Len(tlog) :
            LET held == IF Cardinality(TryEnqueues) < Capacity
                        THEN Cardinality(TryEnqueues) ELSE Capacity
                j == i - Cardinality(TryEnqueues)
            IN  IF tlog[i].kind = "TryEnqueue"
                THEN tlog[i].ok = (i <= Capacity)
                ELSE IF j <= held
                     THEN tlog[i].ok /\ tlog[i].ptr = tlog[j].ptr
                     ELSE ~tlog[i].ok


\* ---- New and Next2 ----

\* the powers of two, the first one past the word included
PowersOf2 == {Pow2(k) : k \in 0..WordBits}

\* the smallest power of two that is v or more
SmallestPow2(v) ==
    CHOOSE n \in PowersOf2 : n >= v /\ \A m \in PowersOf2 : m >= v => n <= m

\* C23: whatever size New is given, the queue it builds has as many cells as
\* the smallest power of two that is the size or more, mask is that number
\* less one, cell i starts with seq = i and a nil ptr, and Next2 of the size
\* is that power of two.
C23_NewCapacity ==
    pout # NoCall =>
        LET capacity == SmallestPow2(pin.v)
        IN  /\ pout.v = capacity
            /\ DOMAIN cells = 0..(capacity - 1)
            /\ mask = capacity - 1
            /\ \A i \in DOMAIN cells : cells[i].seq = i /\ cells[i].ptr = Null


\* ---- CompareAndSwapUintptr ----

\* C24: a call of CompareAndSwapUintptr(addr, old, new) that found old at
\* addr has stored new there and returns (new, true); one that found
\* another value returns false with the value now at addr, and has left
\* addr as it was unless somebody else stored to it meanwhile.
C24_CompareAndSwap ==
    pcas = "done" =>
        IF pin.was = pin.old
        THEN /\ pmem = pin.new
             /\ pout = [fresh |-> pin.new, swapped |-> TRUE]
        ELSE /\ pout = [fresh |-> pmem, swapped |-> FALSE]
             /\ pquiet => pmem = pin.was

\* both outcomes in both builds are reached; this one is the exchange that
\* was made with new different from old
C24_Witness ==
    /\ pcas = "done"
    /\ pin.was = pin.old
    /\ pin.new # pin.old
    /\ pout.swapped


\* ---- the Vyukov queues at the wrap of the positions ----

C25_Step ==
    \A p \in QProcs :
        /\ (qsolo[p] /\ qpc[p] = "e_store" /\ qpc'[p] = "idle") => Held < size
        /\ (qsolo[p] /\ qpc[p] = "d_store" /\ qpc'[p] = "idle") => Held > 0

\* C25: in each of the four variants, when the positions pass the largest
\* word, a TryEnqueue with no other call in flight does not return true on a
\* queue that holds size payloads and a TryDequeue with no other call in
\* flight does not return true on an empty queue: both return false.
C25_WrapFullEmpty == [][C25_Step]_vars


\* ---- the MPMC queue is not linearizable ----

\* an enqueuer has claimed position pos and has not yet stored the cell's seq
Unpublished(pos) ==
    \E e \in Enqueuers :
        qpc[e] \in {"e_ptr", "e_store"} /\ Wrap(qpos[e] - 1) = pos

C26_Step ==
    (variant = "mpmc" /\ size >= 2) =>
        \A p \in Dequeuers :
            (qpc[p] = "d_seq" /\ qpc'[p] = "idle" /\ Misses(p)) =>
                (qpos[p] = deqPos /\ Unpublished(deqPos))

\* C26: the MPMC queue is not linearizable. The two executions of the claim
\* are those of C26_Witness; what holds of them in a queue of two or more
\* cells is that a TryDequeue returns false while an accepted payload
\* waits only when the enqueuer of position deqPos has claimed the position
\* and has not yet published the cell (claiming and publishing are apart).
C26_MissOnlyUnpublished == [][C26_Step]_vars

\* both executions in one: accepted[1] = A returned from TryEnqueue before
\* accepted[2] = B, B was dequeued at position 0 and returned first, A at
\* position 1, and a TryDequeue returned false while A was accepted and
\* nothing had been dequeued
C26_Witness ==
    /\ variant = "mpmc"
    /\ size = 2
    /\ missed
    /\ Len(accepted) >= 2
    /\ Len(returned) >= 2
    /\ returned[1] = accepted[2]
    /\ returned[2] = accepted[1]
    /\ <<0, accepted[2]>> \in claims
    /\ <<1, accepted[1]>> \in claims


\* ---- the cycle of a cell's seq ----

\* the position p took for its TryEnqueue
EnqueuePosition(p) == CHOOSE pos \in 0..(WordMod - 1) : <<pos, qptr[p]>> \in eclaims

C27_Step ==
    /\ \A i \in DOMAIN cells : cells'[i].seq >= cells[i].seq
    /\ \A p \in QProcs :
           /\ (qpc[p] = "e_store" /\ qpc'[p] = "idle") =>
                  /\ qc[p] = BitAnd(EnqueuePosition(p), mask)
                  /\ cells'[qc[p]].seq = EnqueuePosition(p) + 1
           /\ (qpc[p] = "d_store" /\ qpc'[p] = "idle") =>
                  \E pos \in 0..(WordMod - 1) :
                      /\ claims' = claims \cup {<<pos, qptr[p]>>}
                      /\ qc[p] = BitAnd(pos, mask)
                      /\ cells'[qc[p]].seq = pos + size

C27_Cell ==
    \A i \in DOMAIN cells :
        /\ cells[i].seq >= i
        /\ cells[i].seq % size \in {i, (i + 1) % size}

\* C27: the seq of cell b of a queue of s cells goes b, b+1, b+s, b+s+1,
\* ...: it never decreases, it is always b or more and congruent to b or to
\* b+1 modulo s, the TryEnqueue of position p sets it to p+1 and the
\* TryDequeue of position p sets it to p+s.
C27_SeqCycle == []C27_Cell /\ [][C27_Step]_vars


\* ---- the handoff through a cell ----

\* between claiming a position and storing the cell's seq
Claiming(p) == qpc[p] \in {"e_ptr", "e_store", "d_ptr", "d_store"}

\* no position occurs twice
OnePerPosition(S) == \A a, b \in S : a[1] = b[1] => a = b

\* C28: in mpmcdvq no position is claimed by two enqueuers or by two
\* dequeuers, the TryDequeue of position p returns the payload of the
\* TryEnqueue of position p, and no two goroutines are at the same time
\* between claiming a position and storing seq on the same cell.
C28_Handoff ==
    variant = "mpmc" =>
        /\ OnePerPosition(eclaims)
        /\ OnePerPosition(claims)
        /\ claims \subseteq eclaims
        /\ \A p, q \in QProcs :
               (p # q /\ Claiming(p) /\ Claiming(q)) => qc[p] # qc[q]


\* ---- an empty cell holds no payload ----

\* the seq of cell i is that of a cell waiting for an enqueuer
MarksEmpty(i) == cells[i].seq % size = i

\* a goroutine has claimed a position of cell i and not yet released it
Owned(i) == \E p \in QProcs : Claiming(p) /\ qc[p] = i

\* C29: TryDequeue sets c.ptr to primitive.Null before it releases the cell
\* by storing seq, so a cell whose seq marks it empty, and which no
\* goroutine has claimed and not yet released, holds a nil ptr.
C29_EmptyCellNull ==
    \A i \in DOMAIN cells : (MarksEmpty(i) /\ ~Owned(i)) => cells[i].ptr = Null


\* ---- the four Vyukov queues agree when called one call at a time ----

\* C30: after any sequence of TryEnqueue and TryDequeue calls made one at a
\* time on four queues of the same size, one of each package, every call
\* has returned, with the same results in the four packages, and the four
\* queues have the same enqPos, deqPos and cells (seq and ptr).
C30_SameSequential ==
    pin.calls > 0 =>
        \A v, w \in Variants :
            /\ ~pout[v].hangs
            /\ pout[v].ok = pout[w].ok
            /\ pout[v].ptr = pout[w].ptr
            /\ quad[v] = quad[w]


\* ---- the loops of the Try calls of mpmcdvq ----

\* C31: a TryEnqueue (TryDequeue) of mpmcdvq goes round its loop again only
\* when enqPos (deqPos) is no longer the position the call last read, so a
\* call that runs with no other call in flight never goes round again: it
\* returns after one iteration.
C31_LoopOnlyOnAdvance ==
    variant = "mpmc" =>
        \A p \in QProcs :
            /\ qpc[p] = "e_reload" => (enqPos # qpos[p] /\ ~qsolo[p])
            /\ qpc[p] = "d_reload" => (deqPos # qpos[p] /\ ~qsolo[p])


\* ---- what Prime does ----

\* Prime returns to its caller
PrimeReturns(w) == bpc[w] \in {"p_load1", "p_load2", "p_write", "p_add"} /\ bpc'[w] = "w_try2"

C32_Step ==
    \A w \in Waiters :
        \* the two loads of counter: the primer is what they read, and a
        \* value other than last ends the call
        /\ (bpc[w] \in {"p_load1", "p_load2"} /\ bpc'[w] # bpc[w]) =>
               /\ bprimer'[w] = counter
               /\ (counter # blast[w]) = (bpc'[w] = "w_try2")
        \* the check of lock.write ends the call when it is not zero
        /\ (bpc[w] = "p_write" /\ bpc'[w] # bpc[w]) =>
               /\ (lwrite # 0) = (bpc'[w] = "w_try2")
               /\ bprimer'[w] = bprimer[w]
        \* a call that ends at one of these returns false and leaves waiters
        /\ (PrimeReturns(w) /\ bpc[w] # "p_add") =>
               (~bprimed'[w] /\ waiters' = waiters)
        \* the only other end: waiters goes up by one and primed is true
        /\ (PrimeReturns(w) /\ bpc[w] = "p_add") =>
               /\ bprimed'[w]
               /\ waiters' = waiters + 1
               /\ bprimer'[w] = bprimer[w]
        \* primed is true only by that step
        /\ (bprimed'[w] /\ ~bprimed[w]) => (PrimeReturns(w) /\ bpc[w] = "p_add")

\* C32: Prime(last) returns primed = false and leaves waiters as it is when
\* counter is not last at one of its two loads or lock.write is not zero at
\* its check; it returns primed = true only after adding exactly one to
\* waiters; the primer it returns is the counter it last loaded.
C32_PrimeEffect == [][C32_Step]_vars

\* a Prime has returned true, with its one increment of waiters
C32_Witness == \E w \in Waiters : bpc[w] = "w_try2" /\ bprimed[w] /\ net[w] = 1


\* ---- when Wait returns ----

\* the step changes where w is
Moves(w) == bpc'[w] # bpc[w]

C33_Step ==
    \A w \in Waiters :
        \* Wait returns from its two return statements only
        /\ (bpc[w] \in WaitPcs /\ bpc'[w] \notin WaitPcs) =>
               bpc[w] \in {"wt_dec1", "wt_unlock"}
        \* which it reaches only by finding counter different from primer
        /\ (Moves(w) /\ bpc'[w] = "wt_dec1") =>
               (bpc[w] = "wt_load" /\ counter # bprimer[w])
        /\ (Moves(w) /\ bpc'[w] = "wt_dec2") =>
               (bpc[w] = "wt_check" /\ counter # bprimer[w])
        /\ (Moves(w) /\ bpc'[w] = "wt_unlock") => bpc[w] = "wt_dec2"
        \* it calls cond.Wait with the reader lock, having found counter
        \* equal to primer under it
        /\ (Moves(w) /\ bpc'[w] = "cw_add") =>
               /\ bpc[w] = "wt_check"
               /\ counter = bprimer[w]
               /\ ClearHighBit(lread) >= 1
        \* and a wake-up sends it back to the load of counter
        /\ (Moves(w) /\ bpc[w] = "cw_park") => bpc'[w] = "wt_load"

ReadSection(w) ==
    bpc[w] \in {"wt_check", "wt_dec2", "wt_unlock", "cw_add", "cw_unlock"}

\* the holder has unlocked, the pending writer has not yet stored 1
HandingOff ==
    /\ HasHighBit(lwrite)
    /\ \E q \in BProcs : bpc[q] \in {"tl_pend", "tl_pendstore"}

C34_Step ==
    \A w \in Waiters :
        (bpc[w] = "rl_cas" /\ HasHighBit(bread[w]) /\ Moves(w)) =>
            (bpc'[w] = "wt_load" /\ lread' = lread)

\* C34: no reader is between a TryRLock that returned true and its Unlock
\* while a writer is between a TryLock that returned true and its WUnlock,
\* nor while the lock is handed to the pending writer; a TryRLock that
\* finds the high bit of read set returns false.
C34_ReaderExclusion ==
    /\ []((HandingOff \/ \E p \in BProcs : Holding(p)) =>
             \A w \in Waiters : ~ReadSection(w))
    /\ [][C34_Step]_vars

\* a reader has loaded read with the high bit set while a writer holds
C34_Witness ==
    \E w \in Waiters, h \in BProcs :
        bpc[w] = "rl_cas" /\ HasHighBit(bread[w]) /\ Holding(h)


\* ---- what completeTurn does to the state word ----

\* p's compare-and-swap in completeTurn succeeds in this step
Completes(p) ==
    tcall[p].pc = "ct_cas" /\ tcall'[p].pc \in {"ct_inwake", "ct_ret"}

C35_Step ==
    /\ \A p \in Threads :
          (Completes(p)
           /\ getTurnNumber(futex[tcall[p].f].State) = tcall[p].turn) =>
              LET f == tcall[p].f
                  turn == tcall[p].turn
                  before == getTurnWait(futex[f].State)
              IN  /\ getTurnNumber(futex'[f].State) = turn + 1
                  /\ getTurnWait(futex'[f].State) =
                        IF before = 0 THEN 0 ELSE before - 1
                  /\ (before # 0) <=> tcall'[p].pc = "ct_inwake"
                  /\ (before # 0) =>
                        /\ fcall'[p].pc = "wake_lock"
                        /\ fcall'[p].f = f
                        /\ fcall'[p].count = MaxUint32
                        /\ fcall'[p].waitMask = futexChannel(turn + 1)
                  /\ (before = 0) => fcall'[p] = fcall[p]
    /\ \A f \in Futexes :
          getTurnNumber(futex'[f].State) # getTurnNumber(futex[f].State) =>
              /\ getTurnNumber(futex'[f].State) =
                    getTurnNumber(futex[f].State) + 1
              /\ \E p \in Threads : Completes(p) /\ tcall[p].f = f

\* C35: completeTurn(t), called while the turn is t, sets in one
\* compare-and-swap the turn to t+1 and the count of waiters to
\* max(0, count-1), and calls Wake for all waiters on the channel of t+1
\* exactly when the count before the swap was not zero; the turn number
\* changes only by such a swap, and by one.
C35_CompleteTurn == [][C35_Step]_vars

\* a completeTurn that found waiters has swapped and entered Wake
C35_Witness ==
    \E p \in Threads :
        /\ tcall[p].pc = "ct_inwake"
        /\ fcall[p].pc = "wake_lock"
        /\ getTurnNumber(futex[tcall[p].f].State) = tcall[p].turn + 1


\* ---- the packed state word ----

Min(a, b) == IF a < b THEN a ELSE b

\* C36: the count packed in the low turnShift bits never exceeds
\* turnWaitMask and packing it never alters the turn number:
\* getTurnNumber(encodeTurn(t, w)) = t and
\* getTurnWait(encodeTurn(t, w)) = min(w, turnWaitMask) for every turn t
\* and count w.
C36_EncodeRoundTrip ==
    pout # NoCall =>
        /\ pout.turnWait <= turnWaitMask
        /\ pout.turnWait = Min(pin.turnWait, turnWaitMask)
        /\ pout.turnNumber = pin.turnNumber

\* the turn numbers the state word has room for
TurnField == 0..(Pow2(WordBits - turnShift) - 1)

\* the same for the turn numbers that fit the word
EncodeInField ==
    (pout # NoCall /\ pin.turnNumber \in TurnField) =>
        /\ pout.turnWait = Min(pin.turnWait, turnWaitMask)
        /\ pout.turnNumber = pin.turnNumber

\* ---- how often the spin cutoff is adapted ----

\* the 1<<updateSpinFreqShift tickets that ticket lies among
Stretch(ticket) ==
    LET every == Pow2(updateSpinFreqShift)
    IN  {k \in Words : k \div every = ticket \div every}

\* C38: the flag handed to the turn broker is true for about one ticket in
\* every 1<<updateSpinFreqShift, whatever the magnitude of the ticket:
\* among the 1<<updateSpinFreqShift tickets around any ticket there is one
\* for which it is true.
C38_SpinFrequency ==
    pout # NoCall =>
        /\ pout.maybeUpdateSpin = MaybeUpdateSpin(pin.ticket)
        /\ \E k \in Stretch(pin.ticket) : MaybeUpdateSpin(k)


\* ---- the turns of a folly cell ----

FollyCells == DOMAIN cellPtr

\* p is past waitFor and has not yet swapped the turn on in completeTurn
InTurn(p) ==
    \/ ycall[p].pc \in {"enq_wait", "deq_wait"} /\ tcall[p].pc = "wf_ret"
    \/ ycall[p].pc \in {"enq_complete", "deq_complete"}
          /\ tcall[p].pc \in {"ct_load", "ct_cas"}

\* the threads in their turn on cell c
TurnTakers(c) == {p \in Threads : InTurn(p) /\ CellOf(ycall[p].ticket) = c}

Odd(n) == n % 2 = 1

C37_Step ==
    \A c \in FollyCells :
        cellPtr'[c] # cellPtr[c] =>
            \E p \in Threads :
                /\ CellOf(ycall[p].ticket) = c
                /\ tcall[p].pc = "wf_ret"
                /\ CurrentTurn(BrokerOf(c)) = tcall[p].turn
                /\ \/ /\ ycall[p].pc = "enq_wait"
                      /\ tcall[p].turn = 2 * TurnOf(ycall[p].ticket)
                      /\ cellPtr'[c] = ycall[p].ptr
                   \/ /\ ycall[p].pc = "deq_wait"
                      /\ tcall[p].turn = 2 * TurnOf(ycall[p].ticket) + 1
                      /\ ycall'[p].ptr = cellPtr[c]
                      /\ cellPtr'[c] = Null

\* C37: on each cell the turns alternate between enqueue and dequeue: ptr is
\* written only by the thread whose even turn 2k is the current one, read
\* and cleared only by the thread whose odd turn 2k+1 is the current one;
\* at most one thread is between the return of waitFor and its completeTurn
\* on a cell; and a cell that no thread is taking its turn on holds a
\* payload exactly when its turn is odd.
C37_TurnsAlternate ==
    /\ [](\A c \in FollyCells :
            /\ Cardinality(TurnTakers(c)) <= 1
            /\ \A p \in TurnTakers(c) :
                  CurrentTurn(BrokerOf(c)) = tcall[p].turn
            /\ TurnTakers(c) = {} =>
                  (cellPtr[c] # Null <=> Odd(CurrentTurn(BrokerOf(c)))))
    /\ [][C37_Step]_vars


\* ---- whom Wake wakes ----

\* p's Wake unlinks a node in this step
Unlinks(p) == fcall[p].pc = "wake_scan" /\ fcall'[p].pc = "wake_nlock"

C39_Step ==
    \A p \in Threads :
        Unlinks(p) => fcall[fcall'[p].cur].f = fcall[p].f

\* C39: Wake on a futex unlinks and signals only nodes linked by Wait calls
\* on that futex: a waiter on another futex is never woken by it, whether
\* or not the two share a bucket.
C39_WakeOwnWaiters == [][C39_Step]_vars

\* ---- when Wait returns Awoken ----

\* p's Wait returns in this step
WaitReturns(p) == InWait(p) /\ fcall'[p].pc = "idle"

\* the Wakes that have signalled p's node
WokenBy(p) == {w \in Threads : p \in fghost[w].hit}

C40_Step ==
    \A p \in Threads :
        /\ WaitReturns(p) => ~Linked(p)
        /\ (WaitReturns(p) /\ fcall'[p].result = Awoken) =>
              /\ node[p].signalled
              /\ WokenBy(p) # {}
        /\ FutexWakeSignal(p) =>
              /\ ~node[fcall[p].cur].signalled
              /\ ~Linked(fcall[p].cur)
              /\ WokenBy(fcall[p].cur) = {}

\* C40: Wait returns Awoken only after a Wake has unlinked its node and set
\* signalled; it never returns while its node is linked and never returns
\* Awoken without a Wake; a node is signalled at most once.
C40_AwokenByWake ==
    /\ [][C40_Step]_vars
    /\ [](\A p \in Threads :
            /\ node[p].signalled => (~Linked(p) /\ WokenBy(p) # {})
            /\ Cardinality(WokenBy(p)) <= 1)

\* a Wait has returned Awoken after the Wake that signalled it
C40_Witness ==
    \E p, w \in Threads :
        /\ fcall[p].pc = "idle" /\ fcall[p].result = Awoken
        /\ p \in Sleepers
        /\ p \in fghost[w].hit

====
